---- MODULE Spec2Model ----
(***************************************************************************)
(* Employee Engagement Pulse: the scoring -> aggregation -> insight core.  *)
(*                                                                         *)
(* Store tables (app/models.py) are sequences of rows; a row's primary key *)
(* `id` is its position in the sequence (autoincrement, rows are never     *)
(* deleted).  Scores are fixed-point integers in units of 1/10000 (VADER   *)
(* reports the compound score with 4 decimals; every table weight is a     *)
(* multiple of 0.1).  Means and trends are exact rationals <<num, den>>;   *)
(* round(x, 3) yields a multiple of 10 units.  Binary floating-point       *)
(* representation error is not modelled.  Dates are day numbers, day 0     *)
(* being a Monday.                                                         *)
(***************************************************************************)
EXTENDS Integers, Sequences, FiniteSets, TLC

VARIABLES sentiments, daily_summaries, weekly_summaries, weekly_raw,
          insights, today, session

vars == <<sentiments, daily_summaries, weekly_summaries, weekly_raw,
          insights, today, session>>

(***************************************************************************)
(* Bounds of the model                                                     *)
(***************************************************************************)
MaxRecords == 3
MaxBoost == 12000
MaxInsights == 3
MaxWeeks == 4

(***************************************************************************)
(* Input domains                                                           *)
(***************************************************************************)
None == "None"
NoRow == 0
NoTime == -1
Channels == {"C1", "C2"}
Users == {"U1", "U2"}
Timestamps == {"t1", "t2"}
Actors == {"alice", "bob"}
\* the store sessions (SessionLocal()) of the callers that run concurrently
Sessions == {"s1", "s2"}
\* the days on which the model observes the clock (0, 7, 14 are Mondays)
ClockDays == {0, 7, 8}

\* 1.0 and the clamp ranges, in units of 1/10000
One == 10000
KeywordLimit == 5000

(***************************************************************************)
(* app/sentiment.py: the fixed tables                                      *)
(***************************************************************************)
EMOJI_SCORES ==
    [e \in {":thumbsup:", ":+1:", ":thumbsdown:", ":-1:", ":fire:", ":heart:",
            ":grinning:", ":blush:", ":smiley:", ":smile:", ":tada:",
            ":white_check_mark:", ":100:", ":rocket:", ":star:", ":muscle:",
            ":disappointed:", ":cry:", ":sob:", ":rage:",
            ":huffing_with_anger:", ":grimacing:", ":cold_sweat:",
            ":tired_face:", ":skull:", ":x:", ":warning:", ":thinking:",
            ":thinking_face:", ":eyes:", ":shrug:", ":robot:", ":computer:",
            ":zap:", ":dart:", ":bar_chart:", ":bug:", ":wrench:", ":coffee:",
            ":pizza:"} |->
        CASE e \in {":heart:", ":100:"} -> 6000
          [] e \in {":thumbsup:", ":+1:", ":tada:"} -> 5000
          [] e \in {":fire:", ":grinning:", ":blush:", ":smiley:", ":smile:",
                    ":rocket:", ":star:", ":muscle:"} -> 4000
          [] e \in {":white_check_mark:", ":pizza:"} -> 3000
          [] e \in {":zap:", ":dart:", ":coffee:"} -> 2000
          [] e \in {":eyes:", ":computer:", ":bar_chart:"} -> 1000
          [] e \in {":thinking:", ":thinking_face:", ":shrug:", ":robot:",
                    ":wrench:"} -> 0
          [] e \in {":grimacing:", ":warning:", ":bug:"} -> -2000
          [] e \in {":skull:", ":x:"} -> -3000
          [] e \in {":disappointed:", ":huffing_with_anger:",
                    ":cold_sweat:"} -> -4000
          [] e \in {":thumbsdown:", ":-1:", ":cry:", ":tired_face:"} -> -5000
          [] e \in {":sob:", ":rage:"} -> -6000]

REACTION_SCORES ==
    [r \in {"thumbsup", "+1", "thumbsdown", "-1", "fire", "heart", "tada",
            "100", "rocket", "star", "eyes", "thinking_face", "x", "warning",
            "bug", "coffee", "pizza"} |->
        CASE r \in {"heart", "100"} -> 6000
          [] r \in {"thumbsup", "+1", "tada"} -> 5000
          [] r \in {"fire", "rocket", "star"} -> 4000
          [] r = "pizza" -> 3000
          [] r = "coffee" -> 2000
          [] r = "eyes" -> 1000
          [] r = "thinking_face" -> 0
          [] r \in {"warning", "bug"} -> -2000
          [] r = "x" -> -3000
          [] r \in {"thumbsdown", "-1"} -> -5000]

WORK_KEYWORDS ==
    [k \in {"deploy", "shipped", "release", "launch", "success", "completed",
            "fixed", "resolved", "great job", "well done", "awesome",
            "excellent", "bug", "error", "failed", "broken", "issue",
            "problem", "incident", "outage", "down", "crash", "urgent",
            "critical", "blocke", "stuck", "frustrated", "stressed",
            "overwhelmed", "burnout", "tired"} |->
        CASE k = "great job" -> 4000
          [] k \in {"success", "well done", "awesome", "excellent"} -> 3000
          [] k \in {"shipped", "launch", "completed", "fixed",
                    "resolved"} -> 2000
          [] k \in {"deploy", "release"} -> 1000
          [] k \in {"issue", "urgent"} -> -1000
          [] k \in {"bug", "error", "problem", "down", "critical", "blocke",
                    "stuck", "tired"} -> -2000
          [] k \in {"failed", "broken", "incident", "crash"} -> -3000
          [] k \in {"outage", "frustrated", "stressed"} -> -4000
          [] k = "overwhelmed" -> -5000
          [] k = "burnout" -> -6000]

(***************************************************************************)
(* Message texts.  A text is what the scoring functions see of it: the     *)
(* compound score the VADER analyzer reports for it (external library),    *)
(* the emoji tokens extract_emojis finds in it, in order, and the set of   *)
(* WORK_KEYWORDS entries that occur in it as substrings.  The empty text   *)
(* "" is also what score_event substitutes for an absent text field.       *)
(* Emoji lists are chosen so that sum / len is exact in units of 1/10000.  *)
(***************************************************************************)
TEXTS ==
    [t \in {"", "meh", "bug", "shipped :tada:", "outage burnout :sob: :x:",
            "fine", "ugh", "great", "hmm"} |->
        CASE t = "" -> [compound |-> 0, emojis |-> <<>>, words |-> {}]
          [] t = "meh" -> [compound |-> -996, emojis |-> <<>>, words |-> {}]
          [] t = "fine" -> [compound |-> 999, emojis |-> <<>>, words |-> {}]
          [] t = "ugh" -> [compound |-> -1001, emojis |-> <<>>, words |-> {}]
          [] t = "great" -> [compound |-> 3000, emojis |-> <<>>, words |-> {}]
          [] t = "hmm" -> [compound |-> -1000, emojis |-> <<>>, words |-> {}]
          [] t = "bug" -> [compound |-> 0, emojis |-> <<>>, words |-> {"bug"}]
          [] t = "shipped :tada:" ->
                [compound |-> 0, emojis |-> <<":tada:">>,
                 words |-> {"shipped"}]
          [] t = "outage burnout :sob: :x:" ->
                [compound |-> -3000, emojis |-> <<":sob:", ":x:">>,
                 words |-> {"outage", "burnout"}]]

TextIds == DOMAIN TEXTS

(***************************************************************************)
(* Arithmetic helpers                                                      *)
(***************************************************************************)
\* min(max(x, lo), hi)
Clamp(x, lo, hi) == IF x < lo THEN lo ELSE IF x > hi THEN hi ELSE x

Abs(x) == IF x < 0 THEN -x ELSE x

RECURSIVE SumSeq(_)
SumSeq(s) == IF s = <<>> THEN 0 ELSE Head(s) + SumSeq(Tail(s))

RECURSIVE SumSet(_, _)
SumSet(f, S) ==
    IF S = {} THEN 0
    ELSE LET x == CHOOSE y \in S : TRUE IN f[x] + SumSet(f, S \ {x})

\* Query(...).first() on the ids that match: the first matching row's id,
\* NoRow when the query returns None (ids start at 1)
First(ids) ==
    IF ids = {} THEN NoRow
    ELSE CHOOSE i \in ids : \A j \in ids : i <= j

(***************************************************************************)
(* app/sentiment.py: scoring functions                                     *)
(***************************************************************************)
\* calculate_emoji_sentiment: sum of the table weights of the emojis found,
\* divided by the number of emojis found (known or not), clamped to [-1, 1]
calculate_emoji_sentiment(text) ==
    LET emojis == TEXTS[text].emojis
        scores == [i \in 1..Len(emojis) |->
                     IF emojis[i] \in DOMAIN EMOJI_SCORES
                     THEN EMOJI_SCORES[emojis[i]] ELSE 0]
        emoji_score == IF Len(emojis) > 0
                       THEN SumSeq(scores) \div Len(emojis)
                       ELSE 0
    IN  Clamp(emoji_score, -One, One)

\* calculate_keyword_sentiment: sum of the weights of the keywords that
\* occur in the text, clamped to [-0.5, 0.5]
calculate_keyword_sentiment(text) ==
    Clamp(SumSet(WORK_KEYWORDS, TEXTS[text].words \cap DOMAIN WORK_KEYWORDS),
          -KeywordLimit, KeywordLimit)

\* analyze_text_sentiment(text)["compound"]
analyze_text_sentiment(text) == TEXTS[text].compound

(***************************************************************************)
(* An operation maps the store it runs against to [store, val]: the store  *)
(* after its commit and the value it returns.  The store is                *)
(* [sentiments, daily, weekly, raw, insights].                             *)
(***************************************************************************)

(***************************************************************************)
(* app/sentiment.py: score_event                                           *)
(***************************************************************************)
\* the row score_event builds for a message that has no record yet
NewSentiment(channel_id, user_id, timestamp, text, now) ==
    LET base_sentiment == analyze_text_sentiment(text)
        emoji_boost == calculate_emoji_sentiment(text)
        keyword_modifier == calculate_keyword_sentiment(text)
        final_score == Clamp(base_sentiment + emoji_boost + keyword_modifier,
                             -One, One)
    IN  [channel_id |-> channel_id, user_id |-> user_id,
         message_ts |-> timestamp, text_content |-> text,
         sentiment_score |-> base_sentiment, emoji_boost |-> emoji_boost,
         reaction_boost |-> 0, final_score |-> final_score,
         analysis_date |-> now]

\* db.query(Sentiment).filter(message_ts == ts, channel_id == ch).first()
FindSentiment(tbl, timestamp, channel_id) ==
    LET Match(r) == r.message_ts = timestamp /\ r.channel_id = channel_id
    IN  First({i \in 1..Len(tbl) : Match(tbl[i])})

\* score_event without the "already processed" lookup
score_event_NoExistingCheck(st, event, now) ==
    LET text == IF event.text = None THEN "" ELSE event.text
    IN  IF event.type # "message" THEN [store |-> st, val |-> NoRow]
        ELSE IF event.channel = None \/ event.user = None \/ event.ts = None
        THEN [store |-> st, val |-> NoRow]
        ELSE [store |-> [st EXCEPT !.sentiments = Append(@,
                            NewSentiment(event.channel, event.user, event.ts,
                                         text, now))],
              val |-> Len(st.sentiments) + 1]

\* score_event whose essential-data test leaves out the user id
score_event_NoUserCheck(st, event, now) ==
    LET text == IF event.text = None THEN "" ELSE event.text
        existing == FindSentiment(st.sentiments, event.ts, event.channel)
    IN  IF event.type # "message" THEN [store |-> st, val |-> NoRow]
        ELSE IF event.channel = None \/ event.ts = None
        THEN [store |-> st, val |-> NoRow]
        ELSE IF existing # NoRow THEN [store |-> st, val |-> existing]
        ELSE [store |-> [st EXCEPT !.sentiments = Append(@,
                            NewSentiment(event.channel, event.user, event.ts,
                                         text, now))],
              val |-> Len(st.sentiments) + 1]

\* An event is [type, channel, user, ts, text]; an absent field is None.
\* val is the id of the returned row, NoRow when None is returned.
score_event(st, event, now) ==
    LET channel_id == event.channel
        user_id == event.user
        timestamp == event.ts
        text == IF event.text = None THEN "" ELSE event.text
        existing == FindSentiment(st.sentiments, timestamp, channel_id)
    IN  IF event.type # "message" THEN [store |-> st, val |-> NoRow]
        ELSE IF channel_id = None \/ user_id = None \/ timestamp = None
        THEN [store |-> st, val |-> NoRow]
        ELSE IF existing # NoRow THEN [store |-> st, val |-> existing]
        ELSE [store |-> [st EXCEPT !.sentiments = Append(@,
                            NewSentiment(channel_id, user_id, timestamp, text,
                                         now))],
              val |-> Len(st.sentiments) + 1]

(***************************************************************************)
(* app/sentiment.py: update_sentiment_with_reaction                        *)
(***************************************************************************)
\* REACTION_SCORES.get(reaction, 0.0) * modifier
reaction_score(reaction, modifier) ==
    (IF reaction \in DOMAIN REACTION_SCORES
     THEN REACTION_SCORES[reaction] ELSE 0) * modifier

\* ApplyReaction without the final min(max(.., -1.0), 1.0)
ApplyReaction_NoClamp(s, reaction, modifier) ==
    LET boost == s.reaction_boost + reaction_score(reaction, modifier)
    IN  [s EXCEPT !.reaction_boost = boost,
                  !.final_score = s.sentiment_score + s.emoji_boost + boost]

\* the row after the reaction has been applied to it
ApplyReaction(s, reaction, modifier) ==
    LET boost == s.reaction_boost + reaction_score(reaction, modifier)
    IN  [s EXCEPT !.reaction_boost = boost,
                  !.final_score = Clamp(s.sentiment_score + s.emoji_boost
                                        + boost, -One, One)]

update_sentiment_with_reaction(st, message_ts, channel_id, reaction, modifier) ==
    LET id == FindSentiment(st.sentiments, message_ts, channel_id)
    IN  IF id = NoRow THEN [store |-> st, val |-> FALSE]
        ELSE [store |-> [st EXCEPT !.sentiments[id] =
                            ApplyReaction(@, reaction, modifier)],
              val |-> TRUE]

(***************************************************************************)
(* Exact arithmetic on means: a rational is <<num, den>> with den > 0,     *)
(* num in units of 1/10000.                                                *)
(***************************************************************************)
\* sum(scores) / len(scores)
Mean(scores) == <<SumSeq(scores), Len(scores)>>

RatSub(a, b) == <<a[1] * b[2] - b[1] * a[2], a[2] * b[2]>>

\* a <= k, a >= k and a < k for k in units of 1/10000
RatLe(a, k) == a[1] <= k * a[2]
RatGe(a, k) == a[1] >= k * a[2]
RatLt(a, k) == a[1] < k * a[2]

\* round(a, 3): the nearest multiple of 0.001 (10 units), a tie going to
\* the even neighbour
Round3(a) ==
    LET d == a[2] * 10
        q == a[1] \div d
        r == a[1] - q * d
    IN  IF 2 * r < d THEN 10 * q
        ELSE IF 2 * r > d THEN 10 * (q + 1)
        ELSE IF q % 2 = 0 THEN 10 * q ELSE 10 * (q + 1)

(***************************************************************************)
(* app/aggregator.py: configuration                                        *)
(***************************************************************************)
BURNOUT_DELTA_THRESHOLD == -2000
SENTIMENT_THRESHOLD_NEGATIVE == -1000

(***************************************************************************)
(* app/aggregator.py: dates                                                *)
(***************************************************************************)
\* date.weekday(): 0 is Monday
weekday(d) == d % 7

get_monday_of_week(target_date) == target_date - weekday(target_date)

(***************************************************************************)
(* app/aggregator.py: create_daily_summary                                 *)
(***************************************************************************)
\* [s.final_score for s in rows], rows being ids of table tbl in id order
RECURSIVE ScoresOf(_, _)
ScoresOf(tbl, ids) ==
    IF ids = {} THEN <<>>
    ELSE LET i == CHOOSE x \in ids : \A y \in ids : x <= y
         IN  <<tbl[i].final_score>> \o ScoresOf(tbl, ids \ {i})

\* the top 5 of the users by message count, ties in encounter order
MostActiveUsers(tbl, ids) ==
    LET users == {tbl[i].user_id : i \in ids} \ {None}
        cnt(u) == Cardinality({i \in ids : tbl[i].user_id = u})
        first(u) == CHOOSE i \in ids :
                        /\ tbl[i].user_id = u
                        /\ \A j \in ids : tbl[j].user_id = u => i <= j
        Before(u, v) == cnt(u) > cnt(v) \/ (cnt(u) = cnt(v) /\ first(u) < first(v))
        rank(u) == Cardinality({v \in users : Before(v, u)}) + 1
        n == IF Cardinality(users) < 5 THEN Cardinality(users) ELSE 5
    IN  [k \in 1..n |->
            LET u == CHOOSE v \in users : rank(v) = k
            IN  [user_id |-> u, message_count |-> cnt(u)]]

\* the DailySummary row built from the day's sentiments (ids non-empty)
NewDailySummary(sents, ids, channel_id, summary_date) ==
    LET scores == ScoresOf(sents, ids)
        avg_sentiment == Mean(scores)
        Positive(x) == x > 1000
        Neutral(x) == -1000 <= x /\ x <= 1000
        Negative(x) == x < -1000
    IN  [channel_id |-> channel_id, summary_date |-> summary_date,
         message_count |-> Len(scores),
         avg_sentiment |-> Round3(avg_sentiment),
         positive_count |-> Cardinality({i \in 1..Len(scores) : Positive(scores[i])}),
         neutral_count |-> Cardinality({i \in 1..Len(scores) : Neutral(scores[i])}),
         negative_count |-> Cardinality({i \in 1..Len(scores) : Negative(scores[i])}),
         most_active_users |-> MostActiveUsers(sents, ids),
         peak_activity_hour |-> 14]

\* create_daily_summary without the "already exists" lookup
create_daily_summary_NoExistingCheck(st, channel_id, summary_date) ==
    LET MatchS(r) == r.channel_id = channel_id /\ r.analysis_date = summary_date
        ids == {i \in 1..Len(st.sentiments) : MatchS(st.sentiments[i])}
    IN  IF ids = {} THEN [store |-> st, val |-> NoRow]
        ELSE [store |-> [st EXCEPT !.daily = Append(@,
                            NewDailySummary(st.sentiments, ids, channel_id,
                                            summary_date))],
              val |-> Len(st.daily) + 1]

\* create_daily_summary that recomputes an existing summary in place
create_daily_summary_Refresh(st, channel_id, summary_date) ==
    LET MatchD(r) == r.channel_id = channel_id /\ r.summary_date = summary_date
        existing == First({i \in 1..Len(st.daily) : MatchD(st.daily[i])})
        MatchS(r) == r.channel_id = channel_id /\ r.analysis_date = summary_date
        ids == {i \in 1..Len(st.sentiments) : MatchS(st.sentiments[i])}
        summary == NewDailySummary(st.sentiments, ids, channel_id,
                                   summary_date)
    IN  IF ids = {} THEN [store |-> st, val |-> existing]
        ELSE IF existing # NoRow
        THEN [store |-> [st EXCEPT !.daily[existing] = summary],
              val |-> existing]
        ELSE [store |-> [st EXCEPT !.daily = Append(@, summary)],
              val |-> Len(st.daily) + 1]

create_daily_summary(st, channel_id, summary_date) ==
    LET MatchD(r) == r.channel_id = channel_id /\ r.summary_date = summary_date
        existing == First({i \in 1..Len(st.daily) : MatchD(st.daily[i])})
        MatchS(r) == r.channel_id = channel_id /\ r.analysis_date = summary_date
        ids == {i \in 1..Len(st.sentiments) : MatchS(st.sentiments[i])}
    IN  IF existing # NoRow THEN [store |-> st, val |-> existing]
        ELSE IF ids = {} THEN [store |-> st, val |-> NoRow]
        ELSE [store |-> [st EXCEPT !.daily = Append(@,
                            NewDailySummary(st.sentiments, ids, channel_id,
                                            summary_date))],
              val |-> Len(st.daily) + 1]

(***************************************************************************)
(* app/aggregator.py: generate_burnout_insight                             *)
(***************************************************************************)
\* the Insight row built for a burnout-flagged weekly summary; created_at
\* is the store's clock (day granularity)
NewBurnoutInsight(channel_id, weekly_summary, now) ==
    LET avg_sentiment == weekly_summary.avg_sentiment
        sentiment_trend == weekly_summary.sentiment_trend
        severity == IF avg_sentiment <= -3000 \/ sentiment_trend <= -3000
                    THEN "critical"
                    ELSE IF avg_sentiment <= -2000 \/ sentiment_trend <= -2500
                    THEN "high"
                    ELSE "medium"
        recommendations ==
            (IF avg_sentiment <= -2000 THEN <<"team check-in">> ELSE <<>>)
            \o (IF sentiment_trend <= -2500
                THEN <<"investigate recent changes">> ELSE <<>>)
            \o (IF weekly_summary.active_user_count < 5
                THEN <<"low participation">> ELSE <<>>)
    IN  [channel_id |-> channel_id, insight_type |-> "burnout_alert",
         severity |-> severity,
         recommendation |-> IF recommendations # <<>> THEN recommendations
                            ELSE <<"monitor closely">>,
         data_source |-> [avg_sentiment |-> avg_sentiment,
                          sentiment_trend |-> sentiment_trend,
                          message_count |-> weekly_summary.message_count,
                          active_user_count |->
                              weekly_summary.active_user_count,
                          week_start |-> weekly_summary.week_start,
                          week_end |-> weekly_summary.week_end],
         is_active |-> TRUE, acknowledged_by |-> None,
         acknowledged_at |-> NoTime, created_at |-> now]

\* generate_burnout_insight without the lookup of a recent active alert
generate_burnout_insight_NoDedup(ins, channel_id, weekly_summary, now) ==
    Append(ins, NewBurnoutInsight(channel_id, weekly_summary, now))

\* the insights table after generate_burnout_insight(channel_id, summary)
generate_burnout_insight(ins, channel_id, weekly_summary, now) ==
    LET Recent(r) == /\ r.channel_id = channel_id
                     /\ r.insight_type = "burnout_alert"
                     /\ r.is_active
                     /\ r.created_at >= now - 7
        recent_insight == First({i \in 1..Len(ins) : Recent(ins[i])})
    IN  IF recent_insight # NoRow THEN ins
        ELSE Append(ins, NewBurnoutInsight(channel_id, weekly_summary, now))

(***************************************************************************)
(* app/aggregator.py: create_weekly_summary                                *)
(***************************************************************************)
\* SentimentsInRange without the channel filter
SentimentsInRange_AnyChannel(sents, channel_id, first, last) ==
    LET Match(r) == r.analysis_date >= first /\ r.analysis_date <= last
    IN  {i \in 1..Len(sents) : Match(sents[i])}

\* ids of the channel's sentiments with analysis_date in [first, last]
SentimentsInRange(sents, channel_id, first, last) ==
    LET Match(r) == /\ r.channel_id = channel_id
                    /\ r.analysis_date >= first
                    /\ r.analysis_date <= last
    IN  {i \in 1..Len(sents) : Match(sents[i])}

\* WeeklyTrend with the subtraction the other way round
WeeklyTrend_Reversed(sents, channel_id, week_start, avg_sentiment) ==
    LET prev == SentimentsInRange(sents, channel_id, week_start - 7,
                                  week_start - 1)
    IN  IF prev # {}
        THEN RatSub(Mean(ScoresOf(sents, prev)), avg_sentiment)
        ELSE <<0, 1>>

\* sentiment_trend before rounding
WeeklyTrend(sents, channel_id, week_start, avg_sentiment) ==
    LET prev_week_start == week_start - 7
        prev_week_end == prev_week_start + 6
        prev == SentimentsInRange(sents, channel_id, prev_week_start,
                                  prev_week_end)
    IN  IF prev # {}
        THEN RatSub(avg_sentiment, Mean(ScoresOf(sents, prev)))
        ELSE <<0, 1>>

\* BurnoutFlag with "and" in place of "or"
BurnoutFlag_And(sentiment_trend, avg_sentiment) ==
    /\ RatLe(sentiment_trend, BURNOUT_DELTA_THRESHOLD)
    /\ RatLe(avg_sentiment, SENTIMENT_THRESHOLD_NEGATIVE)

\* burnout_flag, from the unrounded trend and mean
BurnoutFlag(sentiment_trend, avg_sentiment) ==
    \/ RatLe(sentiment_trend, BURNOUT_DELTA_THRESHOLD)
    \/ RatLe(avg_sentiment, SENTIMENT_THRESHOLD_NEGATIVE)

\* EngagementLevel with "> 0.3" in place of ">= 0.3"
EngagementLevel_Strict(avg_sentiment) ==
    IF ~RatLe(avg_sentiment, 3000) THEN "High"
    ELSE IF RatGe(avg_sentiment, 1000) THEN "Medium"
    ELSE IF RatGe(avg_sentiment, -1000) THEN "Low"
    ELSE "Critical"

\* engagement_level, from the unrounded mean
EngagementLevel(avg_sentiment) ==
    IF RatGe(avg_sentiment, 3000) THEN "High"
    ELSE IF RatGe(avg_sentiment, 1000) THEN "Medium"
    ELSE IF RatGe(avg_sentiment, -1000) THEN "Low"
    ELSE "Critical"

\* the WeeklySummary row built from the week's sentiments (ids non-empty)
NewWeeklySummary(sents, ids, channel_id, week_start) ==
    LET avg_sentiment == Mean(ScoresOf(sents, ids))
        sentiment_trend == WeeklyTrend(sents, channel_id, week_start,
                                       avg_sentiment)
        unique_users == {sents[i].user_id : i \in ids} \ {None}
    IN  [channel_id |-> channel_id, week_start |-> week_start,
         week_end |-> week_start + 6,
         message_count |-> Cardinality(ids),
         avg_sentiment |-> Round3(avg_sentiment),
         sentiment_trend |-> Round3(sentiment_trend),
         burnout_flag |-> BurnoutFlag(sentiment_trend, avg_sentiment),
         engagement_level |-> EngagementLevel(avg_sentiment),
         active_user_count |-> Cardinality(unique_users)]

\* the local variables avg_sentiment and sentiment_trend of the call that
\* created the row, before round(.., 3)
NewWeeklyRaw(sents, ids, channel_id, week_start) ==
    LET avg_sentiment == Mean(ScoresOf(sents, ids))
    IN  [avg_sentiment |-> avg_sentiment,
         sentiment_trend |-> WeeklyTrend(sents, channel_id, week_start,
                                         avg_sentiment)]

\* create_weekly_summary that never invokes generate_burnout_insight
create_weekly_summary_NoInsight(st, channel_id, week_start, now) ==
    LET MatchW(r) == r.channel_id = channel_id /\ r.week_start = week_start
        existing == First({i \in 1..Len(st.weekly) : MatchW(st.weekly[i])})
        ids == SentimentsInRange(st.sentiments, channel_id, week_start,
                                 week_start + 6)
    IN  IF existing # NoRow THEN [store |-> st, val |-> existing]
        ELSE IF ids = {} THEN [store |-> st, val |-> NoRow]
        ELSE [store |->
                [st EXCEPT
                    !.weekly = Append(@, NewWeeklySummary(st.sentiments, ids,
                                                channel_id, week_start)),
                    !.raw = Append(@, NewWeeklyRaw(st.sentiments, ids,
                                                   channel_id, week_start))],
              val |-> Len(st.weekly) + 1]

create_weekly_summary(st, channel_id, week_start, now) ==
    LET week_end == week_start + 6
        MatchW(r) == r.channel_id = channel_id /\ r.week_start = week_start
        existing == First({i \in 1..Len(st.weekly) : MatchW(st.weekly[i])})
        ids == SentimentsInRange(st.sentiments, channel_id, week_start,
                                 week_end)
        summary == NewWeeklySummary(st.sentiments, ids, channel_id, week_start)
    IN  IF existing # NoRow THEN [store |-> st, val |-> existing]
        ELSE IF ids = {} THEN [store |-> st, val |-> NoRow]
        ELSE [store |->
                [st EXCEPT
                    !.weekly = Append(@, summary),
                    !.raw = Append(@, NewWeeklyRaw(st.sentiments, ids,
                                                   channel_id, week_start)),
                    !.insights = IF summary.burnout_flag
                                 THEN generate_burnout_insight(@, channel_id,
                                                               summary, now)
                                 ELSE @],
              val |-> Len(st.weekly) + 1]

(***************************************************************************)
(* app/insights.py: the periodic rule battery                              *)
(***************************************************************************)
\* an Insight(...) built by a rule; is_active and created_at take the
\* column defaults when the row is inserted
NewInsight(channel_id, insight_type, severity, recommendation, data_source) ==
    [channel_id |-> channel_id, insight_type |-> insight_type,
     severity |-> severity, recommendation |-> <<recommendation>>,
     data_source |-> data_source,
     is_active |-> TRUE, acknowledged_by |-> None,
     acknowledged_at |-> NoTime, created_at |-> NoTime]

\* s[:n]
Take(s, n) == SubSeq(s, 1, IF n < Len(s) THEN n ELSE Len(s))

\* rows ids of table weekly, ordered by week_start descending
RECURSIVE OrderByWeekStartDesc(_, _)
OrderByWeekStartDesc(weekly, ids) ==
    IF ids = {} THEN <<>>
    ELSE LET i == CHOOSE x \in ids :
                    \A y \in ids :
                        \/ weekly[x].week_start > weekly[y].week_start
                        \/ (weekly[x].week_start = weekly[y].week_start
                            /\ x <= y)
         IN  <<weekly[i]>> \o OrderByWeekStartDesc(weekly, ids \ {i})

\* sum(w.active_user_count for w in ws)
RECURSIVE SumActiveUsers(_)
SumActiveUsers(ws) ==
    IF ws = <<>> THEN 0
    ELSE Head(ws).active_user_count + SumActiveUsers(Tail(ws))

\* sum(w.avg_sentiment for w in ws)
RECURSIVE SumAvg(_)
SumAvg(ws) == IF ws = <<>> THEN 0 ELSE Head(ws).avg_sentiment + SumAvg(Tail(ws))

\* sum(w.avg_sentiment ** 2 for w in ws)
RECURSIVE SumAvgSquares(_)
SumAvgSquares(ws) ==
    IF ws = <<>> THEN 0
    ELSE Head(ws).avg_sentiment * Head(ws).avg_sentiment
         + SumAvgSquares(Tail(ws))

\* sum(w * p for w, p in zip(range(len(ws)), counts)), from position k
RECURSIVE SumIndexTimesUsers(_, _)
SumIndexTimesUsers(ws, k) ==
    IF ws = <<>> THEN 0
    ELSE k * Head(ws).active_user_count + SumIndexTimesUsers(Tail(ws), k + 1)

_check_burnout_patterns(channel_id, weekly) ==
    IF Len(weekly) < 2 THEN <<>>
    ELSE
    LET recent_weeks == Take(weekly, 3)
        negative_weeks == Cardinality({k \in 1..Len(recent_weeks) :
                              recent_weeks[k].avg_sentiment < -1000})
        participation_trend ==
            recent_weeks[1].active_user_count
            - recent_weeks[Len(recent_weeks)].active_user_count
    IN  (IF negative_weeks >= 2
         THEN <<NewInsight(channel_id, "burnout_pattern",
                           IF negative_weeks = 3 THEN "critical" ELSE "high",
                           "immediate team check-in",
                           [weeks_analyzed |-> Len(recent_weeks),
                            negative_weeks |-> negative_weeks])>>
         ELSE <<>>)
        \o (IF participation_trend < -2
            THEN <<NewInsight(channel_id, "participation_decline", "medium",
                              "investigate barriers to participation",
                              [participation_change |-> participation_trend])>>
            ELSE <<>>)

_check_engagement_spikes(channel_id, weekly) ==
    IF Len(weekly) < 2 THEN <<>>
    ELSE
    LET recent_week == weekly[1]
        previous_week == weekly[2]
        sentiment_improvement ==
            recent_week.avg_sentiment - previous_week.avg_sentiment
        first4 == Take(weekly, 4)
    IN  (IF recent_week.avg_sentiment > 3000 /\ sentiment_improvement > 2000
         THEN <<NewInsight(channel_id, "engagement_spike", "low",
                           "document what contributed",
                           [sentiment_improvement |-> sentiment_improvement,
                            current_sentiment |-> recent_week.avg_sentiment,
                            previous_sentiment |->
                                previous_week.avg_sentiment])>>
         ELSE <<>>)
        \o (IF /\ recent_week.active_user_count > 10
               /\ 10 * Len(first4) * recent_week.active_user_count
                      > 13 * SumActiveUsers(first4)
            THEN <<NewInsight(channel_id, "high_participation", "low",
                              "celebrate this engagement",
                              [current_participation |->
                                   recent_week.active_user_count])>>
            ELSE <<>>)

\* slope = (n * sum_xy - sum_x * sum_y) / (n * sum_x2 - sum_x * sum_x) over
\* x = 0..n-1, compared with -0.5 and 0.5 (the denominator is positive)
_check_participation_trends(channel_id, weekly) ==
    IF Len(weekly) < 3 THEN <<>>
    ELSE
    LET first4 == Take(weekly, 4)
        n == Len(first4)
        sum_x == (n * (n - 1)) \div 2
        sum_x2 == ((n - 1) * n * (2 * n - 1)) \div 6
        num == n * SumIndexTimesUsers(first4, 0)
               - sum_x * SumActiveUsers(first4)
        den == n * sum_x2 - sum_x * sum_x
    IN  IF 2 * num < -den
        THEN <<NewInsight(channel_id, "participation_trend", "medium",
                          "investigate causes of reduced participation",
                          [weeks_analyzed |-> n])>>
        ELSE IF 2 * num > den
        THEN <<NewInsight(channel_id, "participation_growth", "low",
                          "continue current engagement strategies",
                          [weeks_analyzed |-> n])>>
        ELSE <<>>

\* _check_sentiment_volatility with the sample variance (division by n - 1)
_check_sentiment_volatility_SampleVariance(channel_id, weekly) ==
    IF Len(weekly) < 4 THEN <<>>
    ELSE
    LET first4 == Take(weekly, 4)
        n == Len(first4)
    IN  IF n * SumAvgSquares(first4) - SumAvg(first4) * SumAvg(first4)
               > 9000000 * n * (n - 1)
        THEN <<NewInsight(channel_id, "sentiment_volatility", "medium",
                          "investigate causes of sentiment swings",
                          [volatility_threshold |-> 3000])>>
        ELSE <<>>

\* std_dev > 0.3 over 4 weeks: variance > 0.09, that is
\* n * sum(s^2) - sum(s)^2 > 0.09 * n^2 in squared units of 1/10000
_check_sentiment_volatility(channel_id, weekly) ==
    IF Len(weekly) < 4 THEN <<>>
    ELSE
    LET first4 == Take(weekly, 4)
        n == Len(first4)
    IN  IF n * SumAvgSquares(first4) - SumAvg(first4) * SumAvg(first4)
               > 9000000 * n * n
        THEN <<NewInsight(channel_id, "sentiment_volatility", "medium",
                          "investigate causes of sentiment swings",
                          [volatility_threshold |-> 3000])>>
        ELSE <<>>

\* the list generate_engagement_insights(channel_id, db) returns
generate_engagement_insights(st, channel_id, now) ==
    LET Match(r) == r.channel_id = channel_id /\ r.week_start >= now - 30
        weekly == OrderByWeekStartDesc(st.weekly,
                      {i \in 1..Len(st.weekly) : Match(st.weekly[i])})
    IN  IF weekly = <<>> THEN <<>>
        ELSE _check_burnout_patterns(channel_id, weekly)
             \o _check_engagement_spikes(channel_id, weekly)
             \o _check_participation_trends(channel_id, weekly)
             \o _check_sentiment_volatility(channel_id, weekly)

(***************************************************************************)
(* app/insights.py: generate_channel_recommendations                       *)
(***************************************************************************)
\* Python's max() of two of the strings "high", "low", "medium": the
\* lexicographically greater one ("high" < "low" < "medium")
StrMax(a, b) ==
    LET rank(x) == CASE x = "high" -> 1 [] x = "low" -> 2 [] x = "medium" -> 3
    IN  IF rank(b) > rank(a) THEN b ELSE a

\* The dictionary generate_channel_recommendations returns: priority_level
\* and the "type" of each recommendation; error is TRUE when the channel has
\* no weekly summary.
generate_channel_recommendations(st, channel_id) ==
    LET Match(r) == r.channel_id = channel_id
        ordered == OrderByWeekStartDesc(st.weekly,
                       {i \in 1..Len(st.weekly) : Match(st.weekly[i])})
    IN  IF ordered = <<>>
        THEN [error |-> TRUE, priority_level |-> None, recommendations |-> <<>>]
        ELSE
        LET recent_summary == ordered[1]
            priority1 == IF recent_summary.burnout_flag THEN "high" ELSE "low"
            priority2 == IF recent_summary.avg_sentiment < -1000
                         THEN StrMax(priority1, "medium") ELSE priority1
        IN  [error |-> FALSE,
             priority_level |-> priority2,
             recommendations |->
                (IF recent_summary.burnout_flag
                 THEN <<"immediate_action">> ELSE <<>>)
                \o (IF recent_summary.avg_sentiment < -1000
                    THEN <<"sentiment_improvement">> ELSE <<>>)
                \o (IF recent_summary.active_user_count < 5
                    THEN <<"engagement_boost">> ELSE <<>>)
                \o (IF recent_summary.engagement_level = "High"
                    THEN <<"maintain_momentum">> ELSE <<>>)]

(***************************************************************************)
(* app/insights.py: run_insight_generation_job                             *)
(***************************************************************************)
\* the rows as inserted on day now (created_at default)
RECURSIVE Inserted(_, _)
Inserted(pending, now) ==
    IF pending = <<>> THEN <<>>
    ELSE <<[Head(pending) EXCEPT !.created_at = now]>>
         \o Inserted(Tail(pending), now)

\* the insights db.add()ed during the loop over channels.  For a channel in
\* gen_fail the rule battery raises: generate_engagement_insights catches
\* the exception and returns [].
RECURSIVE PendingInsights(_, _, _, _)
PendingInsights(st, channels, now, gen_fail) ==
    IF channels = <<>> THEN <<>>
    ELSE (IF Head(channels) \in gen_fail THEN <<>>
          ELSE generate_engagement_insights(st, Head(channels), now))
         \o PendingInsights(st, Tail(channels), now, gen_fail)

\* The store after run_insight_generation_job.  All channels' insights are
\* written by the single db.commit() after the loop; if the insert of a row
\* of a channel in write_fail fails, the except branch rolls back the whole
\* transaction.
run_insight_generation_job(st, channels, now, gen_fail, write_fail) ==
    LET pending == PendingInsights(st, channels, now, gen_fail)
        failed == \E k \in 1..Len(pending) :
                      pending[k].channel_id \in write_fail
    IN  IF failed THEN st
        ELSE [st EXCEPT !.insights = @ \o Inserted(pending, now)]

(***************************************************************************)
(* The store seen by one operation, and the channels table                 *)
(***************************************************************************)
Store == [sentiments |-> sentiments, daily |-> daily_summaries,
          weekly |-> weekly_summaries, raw |-> weekly_raw,
          insights |-> insights]

\* a session that is between operations holds no pending rows
Idle == [pc |-> "idle", pending |-> <<>>]

\* an operation that runs from its first query to its commit with no other
\* session in between
Commit(st) ==
    /\ sentiments' = st.sentiments
    /\ daily_summaries' = st.daily
    /\ weekly_summaries' = st.weekly
    /\ weekly_raw' = st.raw
    /\ insights' = st.insights
    /\ session' = session

\* db.query(Channel).filter(Channel.is_active == True).all()
active_channels == <<"C1", "C2">>

(***************************************************************************)
(* app/aggregator.py: batch jobs                                           *)
(***************************************************************************)
\* for channel in channels: create_daily_summary(channel.id, d, db)
RECURSIVE DailyLoop(_, _, _)
DailyLoop(st, channels, d) ==
    IF channels = <<>> THEN st
    ELSE DailyLoop(create_daily_summary(st, Head(channels), d).store,
                   Tail(channels), d)

\* for channel in channels: create_weekly_summary(channel.id, monday, db)
RECURSIVE WeeklyLoop(_, _, _, _)
WeeklyLoop(st, channels, monday, now) ==
    IF channels = <<>> THEN st
    ELSE WeeklyLoop(create_weekly_summary(st, Head(channels), monday,
                                          now).store,
                    Tail(channels), monday, now)

\* one iteration of the while loop of backfill_summaries
BackfillDay(st, channels, current_date, now) ==
    LET st1 == DailyLoop(st, channels, current_date)
    IN  IF weekday(current_date) = 0
        THEN WeeklyLoop(st1, channels, current_date, now)
        ELSE st1

\* the while loop of backfill_summaries (s is the store after the
\* iteration for current_date)
RECURSIVE BackfillLoop(_, _, _, _, _)
BackfillLoop(st, channels, current_date, end_date, now) ==
    IF current_date > end_date THEN st
    ELSE CHOOSE r \in {BackfillLoop(s, channels, current_date + 1, end_date,
                                    now) :
                          s \in {BackfillDay(st, channels, current_date,
                                             now)}} : TRUE

(***************************************************************************)
(* app/aggregator.py: batch jobs when store writes fail.  A channel in     *)
(* fails is one whose create_daily_summary / create_weekly_summary raises  *)
(* (store error): the except branch of the operation rolls back and        *)
(* returns None, and the loop of the job goes on to the next channel.      *)
(***************************************************************************)
\* DailyLoopWithFailures where the exception escapes the loop
RECURSIVE DailyLoopWithFailures_Abort(_, _, _, _)
DailyLoopWithFailures_Abort(st, channels, d, fails) ==
    IF channels = <<>> THEN st
    ELSE IF Head(channels) \in fails THEN st
    ELSE DailyLoopWithFailures_Abort(
             create_daily_summary(st, Head(channels), d).store,
             Tail(channels), d, fails)

RECURSIVE DailyLoopWithFailures(_, _, _, _)
DailyLoopWithFailures(st, channels, d, fails) ==
    IF channels = <<>> THEN st
    ELSE DailyLoopWithFailures(
             IF Head(channels) \in fails THEN st
             ELSE create_daily_summary(st, Head(channels), d).store,
             Tail(channels), d, fails)

RECURSIVE WeeklyLoopWithFailures(_, _, _, _, _)
WeeklyLoopWithFailures(st, channels, monday, now, fails) ==
    IF channels = <<>> THEN st
    ELSE WeeklyLoopWithFailures(
             IF Head(channels) \in fails THEN st
             ELSE create_weekly_summary(st, Head(channels), monday, now).store,
             Tail(channels), monday, now, fails)

\* one iteration of the while loop of backfill_summaries; daily_fails and
\* weekly_fails are the channels whose daily / weekly creation raises
BackfillDayWithFailures(st, channels, current_date, now, daily_fails, weekly_fails) ==
    LET st1 == DailyLoopWithFailures(st, channels, current_date, daily_fails)
    IN  IF weekday(current_date) = 0
        THEN WeeklyLoopWithFailures(st1, channels, current_date, now,
                                    weekly_fails)
        ELSE st1

RECURSIVE BackfillLoopWithFailures(_, _, _, _, _, _, _)
BackfillLoopWithFailures(st, channels, current_date, end_date, now, daily_fails, weekly_fails) ==
    IF current_date > end_date THEN st
    ELSE CHOOSE r \in {BackfillLoopWithFailures(s, channels, current_date + 1,
                                                end_date, now, daily_fails,
                                                weekly_fails) :
                          s \in {BackfillDayWithFailures(st, channels,
                                     current_date, now, daily_fails,
                                     weekly_fails)}} : TRUE

\* create_weekly_summary when the store rejects the write of the burnout
\* alert: the summary is committed before generate_burnout_insight is
\* called, and generate_burnout_insight catches the error, rolls its own
\* insert back and returns
create_weekly_summary_alert_write_fails(st, channel_id, week_start, now) ==
    LET res == create_weekly_summary(st, channel_id, week_start, now)
    IN  [res EXCEPT !.store.insights = st.insights]

\* the loop of the weekly job; fails are the channels whose alert write
\* the store rejects
RECURSIVE WeeklyLoopWithAlertFailures(_, _, _, _, _)
WeeklyLoopWithAlertFailures(st, channels, monday, now, fails) ==
    IF channels = <<>> THEN st
    ELSE WeeklyLoopWithAlertFailures(
             IF Head(channels) \in fails
             THEN create_weekly_summary_alert_write_fails(st, Head(channels),
                                                          monday, now).store
             ELSE create_weekly_summary(st, Head(channels), monday, now).store,
             Tail(channels), monday, now, fails)

(***************************************************************************)
(* Actions: one per entry point                                            *)
(***************************************************************************)
\* The messages posted in the workspace; the event source may deliver each
\* of them any number of times, on any day.  The second one has no text.
Messages ==
    {[type |-> "message", channel |-> "C1", user |-> "U1", ts |-> "t1",
      text |-> "shipped :tada:"],
     [type |-> "message", channel |-> "C1", user |-> "U2", ts |-> "t2",
      text |-> None],
     [type |-> "message", channel |-> "C2", user |-> "U1", ts |-> "t1",
      text |-> "meh"]}

\* events that are not scorable messages, or lack an essential field
Malformed ==
    {[type |-> "channel_join", channel |-> "C1", user |-> "U1", ts |-> "t1",
      text |-> "shipped :tada:"],
     [type |-> "message", channel |-> None, user |-> "U1", ts |-> "t1",
      text |-> "meh"],
     [type |-> "message", channel |-> "C2", user |-> None, ts |-> "t1",
      text |-> "meh"],
     [type |-> "message", channel |-> "C2", user |-> "U1", ts |-> None,
      text |-> "meh"]}

\* the events delivered to score_event
Events == Messages \cup Malformed

\* further deliveries: a message in C2 that scores below -1 before the
\* clamp, and a second event with the key of the first message
MoreMessages ==
    {[type |-> "message", channel |-> "C2", user |-> "U2", ts |-> "t2",
      text |-> "outage burnout :sob: :x:"],
     [type |-> "message", channel |-> "C1", user |-> "U2", ts |-> "t1",
      text |-> "bug"]}

\* the messages reacted to, as <<message_ts, channel_id>>
ReactionTargets == {<<"t1", "C1">>, <<"t2", "C2">>}

\* score_event for one of the events evs
ScoreStep(evs) ==
    \E event \in evs :
        LET res == score_event(Store, event, today)
        IN  /\ Len(res.store.sentiments) <= MaxRecords
            /\ Commit(res.store)
            /\ UNCHANGED today

\* handle_reaction_added (modifier 1) / handle_reaction_removed (-1)
ReactionStep(targets, names, modifiers) ==
    \E target \in targets, reaction \in names, modifier \in modifiers :
        LET res == update_sentiment_with_reaction(Store, target[1], target[2],
                                                  reaction, modifier)
        IN  /\ \A i \in 1..Len(res.store.sentiments) :
                    Abs(res.store.sentiments[i].reaction_boost) <= MaxBoost
            /\ Commit(res.store)
            /\ UNCHANGED today

\* Aggregation pipeline: the three messages, and removals of a "heart"
\* from the first message or from a message that was never posted.
ScoreEvent == ScoreStep(Events)

ReactionUpdate == ReactionStep(ReactionTargets, {"heart"}, {-1})

\* Scoring engine alone: more messages, reactions added and removed on any
\* message ("wave" is not in the reaction table).
ScoreAnyEvent == ScoreStep(Events \cup MoreMessages)

ReactionAny == ReactionStep(Timestamps \X Channels, {"heart", "wave"}, {1, -1})

RunDailyAggregationJob ==
    LET yesterday == today - 1
    IN  /\ Commit(DailyLoop(Store, active_channels, yesterday))
        /\ UNCHANGED today

RunWeeklyAggregationJob ==
    LET last_monday == get_monday_of_week(today) - 7
    IN  /\ Commit(WeeklyLoop(Store, active_channels, last_monday, today))
        /\ UNCHANGED today

\* channel_ids = {} stands for None or the empty list (all active channels)
BackfillSummaries ==
    \E start_date \in ClockDays, end_date \in ClockDays,
       channel_ids \in {{}, {"C1"}} :
        LET InIds(c) == c \in channel_ids
            channels == IF channel_ids # {}
                        THEN SelectSeq(active_channels, InIds)
                        ELSE active_channels
        IN  /\ Commit(BackfillLoop(Store, channels, start_date, end_date,
                                   today))
                /\ UNCHANGED today

(***************************************************************************)
(* app/insights.py: acknowledge_insight                                    *)
(***************************************************************************)
\* Acknowledged without "insight.is_active = False"
Acknowledged_StaysActive(insight, acknowledged_by, now) ==
    [insight EXCEPT !.acknowledged_by = acknowledged_by,
                    !.acknowledged_at = now]

Acknowledged(insight, acknowledged_by, now) ==
    [insight EXCEPT !.acknowledged_by = acknowledged_by,
                    !.acknowledged_at = now,
                    !.is_active = FALSE]

\* acknowledge_insight that reports success for an unknown id
acknowledge_insight_AlwaysTrue(st, insight_id, acknowledged_by, now) ==
    IF insight_id \notin 1..Len(st.insights)
    THEN [store |-> st, val |-> TRUE]
    ELSE [store |-> [st EXCEPT !.insights[insight_id] =
                        Acknowledged(@, acknowledged_by, now)],
          val |-> TRUE]

\* acknowledge_insight that refuses an insight that is already inactive
acknowledge_insight_OnceOnly(st, insight_id, acknowledged_by, now) ==
    IF insight_id \notin 1..Len(st.insights)
    THEN [store |-> st, val |-> FALSE]
    ELSE IF ~st.insights[insight_id].is_active
    THEN [store |-> st, val |-> FALSE]
    ELSE [store |-> [st EXCEPT !.insights[insight_id] =
                        Acknowledged(@, acknowledged_by, now)],
          val |-> TRUE]

acknowledge_insight(st, insight_id, acknowledged_by, now) ==
    IF insight_id \notin 1..Len(st.insights)
    THEN [store |-> st, val |-> FALSE]
    ELSE [store |-> [st EXCEPT !.insights[insight_id] =
                        Acknowledged(@, acknowledged_by, now)],
          val |-> TRUE]

AcknowledgeInsight ==
    \E insight_id \in 1..(Len(insights) + 1), acknowledged_by \in Actors :
        /\ Commit(acknowledge_insight(Store, insight_id, acknowledged_by,
                                      today).store)
        /\ UNCHANGED today

\* the wall clock moves on to a later observed day
Tick ==
    /\ \E d \in ClockDays : d > today /\ today' = d
    /\ UNCHANGED <<sentiments, daily_summaries, weekly_summaries, weekly_raw,
                   insights, session>>

Init ==
    /\ sentiments = <<>>
    /\ daily_summaries = <<>>
    /\ weekly_summaries = <<>>
    /\ weekly_raw = <<>>
    /\ insights = <<>>
    /\ today = 0
    /\ session = [s \in Sessions |-> Idle]

Next ==
    \/ ScoreEvent
    \/ ReactionUpdate
    \/ RunDailyAggregationJob
    \/ RunWeeklyAggregationJob
    \/ BackfillSummaries
    \/ AcknowledgeInsight
    \/ Tick

Spec == Init /\ [][Next]_vars

NextScoring ==
    \/ ScoreAnyEvent
    \/ ReactionAny

SpecScoring == Init /\ [][NextScoring]_vars

\* Insight engine: two messages per channel, so that both channels can
\* have two weekly summaries; backfill, the periodic battery (with the
\* channels whose rule battery raises and the channels whose rows fail to
\* be written) and acknowledgement.
InsightMessages ==
    {[type |-> "message", channel |-> "C1", user |-> "U1", ts |-> "t1",
      text |-> "shipped :tada:"],
     [type |-> "message", channel |-> "C1", user |-> "U2", ts |-> "t2",
      text |-> None],
     [type |-> "message", channel |-> "C2", user |-> "U1", ts |-> "t1",
      text |-> "shipped :tada:"],
     [type |-> "message", channel |-> "C2", user |-> "U2", ts |-> "t2",
      text |-> "hmm"]}

ScoreInsightEvent ==
    \E event \in InsightMessages :
        LET res == score_event(Store, event, today)
        IN  /\ Len(res.store.sentiments) <= MaxRecords + 1
            /\ Commit(res.store)
            /\ UNCHANGED today

BackfillWeek ==
    \E start_date \in {0, 7} :
        /\ Commit(BackfillLoop(Store, active_channels, start_date, start_date,
                               today))
        /\ UNCHANGED today

RunInsightGenerationJob ==
    \E gen_fail \in SUBSET Channels, write_fail \in SUBSET Channels :
        LET res == run_insight_generation_job(Store, active_channels, today,
                                              gen_fail, write_fail)
        IN  /\ Len(res.insights) <= MaxInsights
            /\ Commit(res)
            /\ UNCHANGED today

\* the wall clock moves on by one week
TickWeek ==
    /\ today = 0
    /\ today' = 7
    /\ UNCHANGED <<sentiments, daily_summaries, weekly_summaries, weekly_raw,
                   insights, session>>

NextInsights ==
    \/ ScoreInsightEvent
    \/ BackfillWeek
    \/ RunInsightGenerationJob
    \/ AcknowledgeInsight
    \/ TickWeek

SpecInsights == Init /\ [][NextInsights]_vars

\* Aggregation with store failures: the three messages, the clock and the
\* three batch operations, each with the channels whose summary creation
\* raises in that run.
RunDailyJobWithFailures ==
    \E fails \in SUBSET Channels :
        /\ Commit(DailyLoopWithFailures(Store, active_channels, today - 1,
                                        fails))
        /\ UNCHANGED today

RunWeeklyJobWithFailures ==
    \E fails \in SUBSET Channels :
        /\ Commit(WeeklyLoopWithFailures(Store, active_channels,
                                         get_monday_of_week(today) - 7, today,
                                         fails))
        /\ UNCHANGED today

BackfillWithFailures ==
    \E start_date \in ClockDays, end_date \in ClockDays,
       daily_fails \in SUBSET Channels, weekly_fails \in SUBSET Channels :
        /\ Commit(BackfillLoopWithFailures(Store, active_channels, start_date,
                                           end_date, today, daily_fails,
                                           weekly_fails))
        /\ UNCHANGED today

NextFailures ==
    \/ ScoreEvent
    \/ RunDailyJobWithFailures
    \/ RunWeeklyJobWithFailures
    \/ BackfillWithFailures
    \/ Tick

SpecFailures == Init /\ [][NextFailures]_vars

\* Weekly aggregation when the write of a burnout alert may fail, and
\* later invocations for the same week by the job or a backfill
RunWeeklyJobWithAlertFailures ==
    \E fails \in SUBSET Channels :
        /\ Commit(WeeklyLoopWithAlertFailures(Store, active_channels,
                       get_monday_of_week(today) - 7, today, fails))
        /\ UNCHANGED today

NextAlertFailures ==
    \/ ScoreInsightEvent
    \/ RunWeeklyJobWithAlertFailures
    \/ BackfillWeek
    \/ TickWeek

SpecAlertFailures == Init /\ [][NextAlertFailures]_vars

\* Weekly classification alone: messages whose scores lie on and next to
\* the engagement-level boundaries, the weekly job and backfill.
BoundaryMessages ==
    {[type |-> "message", channel |-> "C1", user |-> "U1", ts |-> "t1",
      text |-> "fine"],
     [type |-> "message", channel |-> "C1", user |-> "U2", ts |-> "t2",
      text |-> "ugh"],
     [type |-> "message", channel |-> "C2", user |-> "U1", ts |-> "t1",
      text |-> "great"],
     [type |-> "message", channel |-> "C2", user |-> "U2", ts |-> "t2",
      text |-> "hmm"]}

ScoreBoundaryEvent == ScoreStep(BoundaryMessages)

NextLevels ==
    \/ ScoreBoundaryEvent
    \/ RunWeeklyAggregationJob
    \/ BackfillSummaries
    \/ Tick

SpecLevels == Init /\ [][NextLevels]_vars

(***************************************************************************)
(* The rule battery on a channel's weekly history.  The history is the     *)
(* input of generate_engagement_insights: the weekly summaries of channel  *)
(* C1 created in earlier weeks, one per week, each with a mean and a       *)
(* number of active users (one message per user).  The battery reads no    *)
(* other table.                                                            *)
(***************************************************************************)
\* weekly means and active-user counts of the histories
BatteryMeans == {-3500, -1500, 3000, 3500, 4000}
BatteryUsers == {1, 3, 5}

\* the WeeklySummary of week k (weeks start on day 0, 7, 14, ..) as
\* create_weekly_summary stores it; previous is <<>> for the first week
\* and <<mean of week k - 1>> for the others
WeekRow(k, mean, previous, users) ==
    LET avg_sentiment == <<mean, 1>>
        sentiment_trend == IF previous = <<>> THEN <<0, 1>>
                           ELSE <<mean - previous[1], 1>>
    IN  [channel_id |-> "C1", week_start |-> 7 * (k - 1),
         week_end |-> 7 * (k - 1) + 6,
         message_count |-> users,
         avg_sentiment |-> Round3(avg_sentiment),
         sentiment_trend |-> Round3(sentiment_trend),
         burnout_flag |-> BurnoutFlag(sentiment_trend, avg_sentiment),
         engagement_level |-> EngagementLevel(avg_sentiment),
         active_user_count |-> users]

\* the weekly_summaries table for the given means and user counts per week
WeeklyHistory(means, users) ==
    [k \in 1..Len(means) |->
        WeekRow(k, means[k],
                IF k = 1 THEN <<>> ELSE <<means[k - 1]>>, users[k])]

\* the insights table after the first k weeks of the history were
\* summarised, each in the weekly job of the Monday that follows it
RECURSIVE AlertsOfHistory(_, _)
AlertsOfHistory(history, k) ==
    IF k = 0 THEN <<>>
    ELSE LET before == AlertsOfHistory(history, k - 1)
         IN  IF history[k].burnout_flag
             THEN generate_burnout_insight(before, "C1", history[k], 7 * k)
             ELSE before

InitBattery ==
    /\ \E n \in 0..MaxWeeks :
        \E means \in [1..n -> BatteryMeans], users \in [1..n -> BatteryUsers] :
            /\ weekly_summaries = WeeklyHistory(means, users)
            /\ weekly_raw =
                 [k \in 1..n |->
                    [avg_sentiment |-> <<means[k], 1>>,
                     sentiment_trend |->
                        IF k = 1 THEN <<0, 1>>
                        ELSE <<means[k] - means[k - 1], 1>>]]
            /\ insights = AlertsOfHistory(WeeklyHistory(means, users), n)
    /\ sentiments = <<>>
    /\ daily_summaries = <<>>
    /\ today = 7 * MaxWeeks
    /\ session = [s \in Sessions |-> Idle]

\* the first run of the insight-generation job on the history
RunBattery ==
    LET res == run_insight_generation_job(Store, active_channels, today,
                                          {}, {})
    IN  /\ \A i \in 1..Len(insights) :
                insights[i].insight_type = "burnout_alert"
        /\ Commit(res)
        /\ UNCHANGED today

NextBattery == RunBattery

SpecBattery == InitBattery /\ [][NextBattery]_vars

(***************************************************************************)
(* Concurrent callers (event handlers, scheduler jobs, API requests).      *)
(* Each caller has its own store session.  A query reads the committed     *)
(* store; the rows a session adds or changes reach the store at its        *)
(* db.commit().  An operation is therefore two steps, its queries and its  *)
(* commit, and the steps of the sessions interleave.  No table declares a  *)
(* unique constraint (app/models.py), so an INSERT never conflicts.        *)
(***************************************************************************)
\* the messages delivered to the concurrent handlers, each of them to
\* either session any number of times
ConcurrentMessages ==
    {[type |-> "message", channel |-> "C1", user |-> "U1", ts |-> "t1",
      text |-> "great"],
     [type |-> "message", channel |-> "C2", user |-> "U2", ts |-> "t2",
      text |-> "ugh"]}

\* the session is between operations
IsIdle(s) == session[s].pc = "idle"

\* the session starts an operation that will commit the pending rows
Begin(s, pc, pending) ==
    session' = [session EXCEPT ![s] = [pc |-> pc, pending |-> pending]]

\* the session's operation returns
End(s) == session' = [session EXCEPT ![s] = Idle]

\* score_event up to the construction of the Sentiment row: the event is a
\* complete message and the lookup finds no row for it
ScoreEventQuery ==
    \E s \in Sessions, event \in ConcurrentMessages :
        LET existing == FindSentiment(sentiments, event.ts, event.channel)
        IN  /\ IsIdle(s)
            /\ existing = NoRow
            /\ Begin(s, "score_event",
                     <<NewSentiment(event.channel, event.user, event.ts,
                                    event.text, today)>>)
            /\ UNCHANGED <<sentiments, daily_summaries, weekly_summaries,
                           weekly_raw, insights, today>>

\* score_event: db.add(sentiment); db.commit()
ScoreEventCommit ==
    \E s \in Sessions :
        /\ session[s].pc = "score_event"
        /\ sentiments' = Append(sentiments, session[s].pending[1])
        /\ End(s)
        /\ UNCHANGED <<daily_summaries, weekly_summaries, weekly_raw,
                       insights, today>>

\* db.commit() of a loaded row: the UPDATE sets the attributes whose value
\* the session changed and leaves the others as they are in the store
Flush(row, loaded, changed) ==
    [row EXCEPT
        !.reaction_boost = IF changed.reaction_boost # loaded.reaction_boost
                           THEN changed.reaction_boost ELSE @,
        !.final_score = IF changed.final_score # loaded.final_score
                        THEN changed.final_score ELSE @]

\* update_sentiment_with_reaction up to its commit: the row is loaded and
\* its new reaction_boost and final_score are computed in the session
ReactionQuery ==
    \E s \in Sessions, modifier \in {1, -1} :
        LET id == FindSentiment(sentiments, "t1", "C1")
            loaded == sentiments[id]
            changed == ApplyReaction(loaded, "heart", modifier)
        IN  /\ IsIdle(s)
            /\ id # NoRow
            /\ Abs(changed.reaction_boost) <= MaxBoost
            /\ Begin(s, "update_sentiment_with_reaction",
                     <<[id |-> id, loaded |-> loaded, changed |-> changed]>>)
            /\ UNCHANGED <<sentiments, daily_summaries, weekly_summaries,
                           weekly_raw, insights, today>>

\* update_sentiment_with_reaction: db.commit()
ReactionCommit ==
    \E s \in Sessions :
        LET p == session[s].pending[1]
        IN  /\ session[s].pc = "update_sentiment_with_reaction"
            /\ sentiments' = [sentiments EXCEPT ![p.id] =
                                 Flush(@, p.loaded, p.changed)]
            /\ End(s)
            /\ UNCHANGED <<daily_summaries, weekly_summaries, weekly_raw,
                           insights, today>>

\* INSERT INTO daily_summaries with a unique key (channel_id, summary_date)
InsertDailySummary_UniqueKey(tbl, row) ==
    IF \E i \in 1..Len(tbl) : /\ tbl[i].channel_id = row.channel_id
                              /\ tbl[i].summary_date = row.summary_date
    THEN tbl ELSE Append(tbl, row)

\* INSERT INTO daily_summaries
InsertDailySummary(tbl, row) == Append(tbl, row)

\* INSERT INTO weekly_summaries
InsertWeeklySummary(tbl, row) == Append(tbl, row)

\* create_daily_summary up to the construction of the row: no summary
\* exists and the day has sentiments
DailySummaryQuery ==
    \E s \in Sessions, channel_id \in Channels :
        LET summary_date == today
            MatchD(r) == /\ r.channel_id = channel_id
                         /\ r.summary_date = summary_date
            existing == First({i \in 1..Len(daily_summaries) :
                                  MatchD(daily_summaries[i])})
            ids == SentimentsInRange(sentiments, channel_id, summary_date,
                                     summary_date)
        IN  /\ IsIdle(s)
            /\ existing = NoRow
            /\ ids # {}
            /\ Begin(s, "create_daily_summary",
                     <<NewDailySummary(sentiments, ids, channel_id,
                                       summary_date)>>)
            /\ UNCHANGED <<sentiments, daily_summaries, weekly_summaries,
                           weekly_raw, insights, today>>

\* create_daily_summary: db.add(summary); db.commit()
DailySummaryCommit ==
    \E s \in Sessions :
        /\ session[s].pc = "create_daily_summary"
        /\ daily_summaries' = InsertDailySummary(daily_summaries,
                                                 session[s].pending[1])
        /\ End(s)
        /\ UNCHANGED <<sentiments, weekly_summaries, weekly_raw, insights,
                       today>>

\* create_weekly_summary up to the construction of the row
WeeklySummaryQuery ==
    \E s \in Sessions, channel_id \in Channels :
        LET week_start == get_monday_of_week(today)
            MatchW(r) == /\ r.channel_id = channel_id
                         /\ r.week_start = week_start
            existing == First({i \in 1..Len(weekly_summaries) :
                                  MatchW(weekly_summaries[i])})
            ids == SentimentsInRange(sentiments, channel_id, week_start,
                                     week_start + 6)
        IN  /\ IsIdle(s)
            /\ existing = NoRow
            /\ ids # {}
            /\ Begin(s, "create_weekly_summary",
                     <<NewWeeklySummary(sentiments, ids, channel_id,
                                        week_start),
                       NewWeeklyRaw(sentiments, ids, channel_id,
                                    week_start)>>)
            /\ UNCHANGED <<sentiments, daily_summaries, weekly_summaries,
                           weekly_raw, insights, today>>

\* create_weekly_summary: db.add(summary); db.commit(), and then the call
\* of generate_burnout_insight for a flagged summary (taken in one step)
WeeklySummaryCommit ==
    \E s \in Sessions :
        LET summary == session[s].pending[1]
        IN  /\ session[s].pc = "create_weekly_summary"
            /\ weekly_summaries' = InsertWeeklySummary(weekly_summaries,
                                                       summary)
            /\ weekly_raw' = Append(weekly_raw, session[s].pending[2])
            /\ insights' = IF summary.burnout_flag
                           THEN generate_burnout_insight(insights,
                                    summary.channel_id, summary, today)
                           ELSE insights
            /\ End(s)
            /\ UNCHANGED <<sentiments, daily_summaries, today>>

\* Ingestion and reaction updates by concurrent handlers
NextConcurrentIngest ==
    \/ ScoreEventQuery
    \/ ScoreEventCommit
    \/ ReactionQuery
    \/ ReactionCommit

SpecConcurrentIngest == Init /\ [][NextConcurrentIngest]_vars

\* a message is scored with no other session in between
ScoreConcurrentMessage == ScoreStep(ConcurrentMessages)

\* Summary creation by concurrent jobs and requests
NextConcurrentSummaries ==
    \/ ScoreConcurrentMessage
    \/ DailySummaryQuery
    \/ DailySummaryCommit
    \/ WeeklySummaryQuery
    \/ WeeklySummaryCommit

SpecConcurrentSummaries == Init /\ [][NextConcurrentSummaries]_vars

(***************************************************************************)
(* Properties of the scoring engine (checked under SpecScoring)            *)
(***************************************************************************)
AllEvents == Events \cup MoreMessages

HasKey(r, timestamp, channel_id) ==
    r.message_ts = timestamp /\ r.channel_id = channel_id

\* C1: every stored SentimentRecord has final_score =
\* clamp(base + emoji_boost + keyword_modifier + reaction_boost, -1, 1), the
\* keyword modifier being the one computed for the message at ingestion.
C1_FinalScoreInvariant ==
    \A i \in 1..Len(sentiments) :
        LET s == sentiments[i]
        IN  s.final_score =
                Clamp(s.sentiment_score + s.emoji_boost
                      + calculate_keyword_sentiment(s.text_content)
                      + s.reaction_boost, -One, One)

\* C2: for every stored record and every reaction of the reaction table,
\* adding the reaction and then removing it returns reaction_boost and
\* final_score to their values before the pair.
C2_ReactionRoundTrip ==
    \A i \in 1..Len(sentiments), reaction \in DOMAIN REACTION_SCORES :
        LET s == sentiments[i]
            added == update_sentiment_with_reaction(Store, s.message_ts,
                        s.channel_id, reaction, 1).store
            removed == update_sentiment_with_reaction(added, s.message_ts,
                        s.channel_id, reaction, -1).store
        IN  /\ removed.sentiments[i].reaction_boost = s.reaction_boost
            /\ removed.sentiments[i].final_score = s.final_score

\* C3: every stored final_score lies in [-1, 1], whatever the reactions
\* accumulated in reaction_boost.
C3_FinalScoreBounded ==
    \A i \in 1..Len(sentiments) :
        /\ sentiments[i].final_score >= -One
        /\ sentiments[i].final_score <= One

\* a record whose reaction_boost alone exceeds 1 and whose final score was
\* cut to 1 by the reaction update
C3_Witness ==
    \E i \in 1..Len(sentiments) :
        /\ sentiments[i].reaction_boost > One
        /\ sentiments[i].sentiment_score + sentiments[i].emoji_boost
           + sentiments[i].reaction_boost > One
        /\ sentiments[i].final_score = One

\* C4: sequential ingestion is idempotent: at most one record per
\* (channel id, message timestamp), and score_event for a key that has a
\* record returns that record and leaves every row as it is.
C4_IdempotentIngestion ==
    /\ \A i, j \in 1..Len(sentiments) :
            HasKey(sentiments[i], sentiments[j].message_ts,
                   sentiments[j].channel_id) => i = j
    /\ \A event \in AllEvents, i \in 1..Len(sentiments) :
            (/\ event.type = "message"
             /\ event.user # None
             /\ HasKey(sentiments[i], event.ts, event.channel))
            => score_event(Store, event, today)
                   = [store |-> Store, val |-> i]

\* a record that has accumulated a reaction boost, while an event with its
\* key but another text and user can be delivered again
C4_Witness ==
    \E i \in 1..Len(sentiments), event \in AllEvents :
        /\ HasKey(sentiments[i], event.ts, event.channel)
        /\ event.type = "message"
        /\ event.user \notin {None, sentiments[i].user_id}
        /\ event.text # sentiments[i].text_content
        /\ sentiments[i].reaction_boost # 0
        /\ Len(sentiments) >= 2

MissingEssential(event) ==
    event.channel = None \/ event.user = None \/ event.ts = None

\* C5 (as claimed): a message event in which any one of channel id, user
\* id, timestamp and text is absent is a no-op that returns nothing.
C5_AnyMissingFieldIsNoOp ==
    \A event \in AllEvents :
        (event.type = "message"
         /\ (MissingEssential(event) \/ event.text = None))
        => score_event(Store, event, today) = [store |-> Store, val |-> NoRow]

\* C5 (amended): a message event in which channel id, user id or timestamp
\* is absent is a no-op that returns nothing; an event in which only the
\* text is absent is scored as the empty text: unless its key has a record,
\* one record is added, with all components and the final score 0.
C5_MissingEssentialFieldIsNoOp ==
    \A event \in AllEvents :
        LET res == score_event(Store, event, today)
            Same(r) == HasKey(r, event.ts, event.channel)
        IN  /\ (event.type = "message" /\ MissingEssential(event))
               => res = [store |-> Store, val |-> NoRow]
            /\ (/\ event.type = "message"
                /\ ~MissingEssential(event)
                /\ event.text = None
                /\ {i \in 1..Len(sentiments) : Same(sentiments[i])} = {})
               => /\ res.val = Len(sentiments) + 1
                  /\ res.store = [Store EXCEPT !.sentiments = Append(@,
                        [channel_id |-> event.channel,
                         user_id |-> event.user, message_ts |-> event.ts,
                         text_content |-> "", sentiment_score |-> 0,
                         emoji_boost |-> 0, reaction_boost |-> 0,
                         final_score |-> 0, analysis_date |-> today])]

\* the record of the message that was delivered without text is stored,
\* next to another record
C5_Witness ==
    /\ Len(sentiments) >= 2
    /\ \E i \in 1..Len(sentiments), event \in AllEvents :
            /\ event.text = None
            /\ HasKey(sentiments[i], event.ts, event.channel)
            /\ sentiments[i].text_content = ""
            /\ sentiments[i].user_id = event.user

(***************************************************************************)
(* Properties of aggregation and insights (checked under Spec)             *)
(***************************************************************************)
\* dates and week starts an aggregation may be asked for
AnyDates == -7..14
AnyMondays == {d \in AnyDates : weekday(d) = 0}

\* ids of the channel's sentiments of one day
SentimentsOfDay(channel_id, d) ==
    {i \in 1..Len(sentiments) :
        sentiments[i].channel_id = channel_id
        /\ sentiments[i].analysis_date = d}

\* ids of the channel's sentiments of the week that starts on d
SentimentsOfWeek(channel_id, d) ==
    {i \in 1..Len(sentiments) :
        /\ sentiments[i].channel_id = channel_id
        /\ sentiments[i].analysis_date \in d..(d + 6)}

\* C6: not-found operations fail without changing state: a reaction update
\* for a (channel, timestamp) without a record returns failure and leaves
\* the store as it is, and so does acknowledge for an unknown insight id.
C6_NotFoundLeavesStore ==
    /\ \A message_ts \in Timestamps, channel_id \in Channels,
          reaction \in {"heart", "bug", "wave"}, modifier \in {1, -1} :
            (\A i \in 1..Len(sentiments) :
                ~HasKey(sentiments[i], message_ts, channel_id))
            => update_sentiment_with_reaction(Store, message_ts, channel_id,
                                              reaction, modifier)
                   = [store |-> Store, val |-> FALSE]
    /\ \A insight_id \in 0..(Len(insights) + 2), actor \in Actors :
            insight_id \notin 1..Len(insights)
            => acknowledge_insight(Store, insight_id, actor, today)
                   = [store |-> Store, val |-> FALSE]

\* records and insights are stored, one insight is still active, and some
\* message has no record
C6_Witness ==
    /\ Len(sentiments) >= 1
    /\ Len(sentiments) < 3
    /\ Len(insights) >= 1
    /\ \E i \in 1..Len(insights) : insights[i].is_active

\* C7: under sequential invocation summary creation is idempotent: at most
\* one DailySummary per (channel, date) and one WeeklySummary per (channel,
\* week_start), and creation for a key that has a summary returns that
\* summary and inserts nothing.
C7_SummaryCreationIdempotent ==
    /\ \A i, j \in 1..Len(daily_summaries) :
            (daily_summaries[i].channel_id = daily_summaries[j].channel_id
             /\ daily_summaries[i].summary_date
                    = daily_summaries[j].summary_date) => i = j
    /\ \A i, j \in 1..Len(weekly_summaries) :
            (weekly_summaries[i].channel_id = weekly_summaries[j].channel_id
             /\ weekly_summaries[i].week_start
                    = weekly_summaries[j].week_start) => i = j
    /\ \A i \in 1..Len(daily_summaries) :
            create_daily_summary(Store, daily_summaries[i].channel_id,
                                 daily_summaries[i].summary_date)
                = [store |-> Store, val |-> i]
    /\ \A i \in 1..Len(weekly_summaries) :
            create_weekly_summary(Store, weekly_summaries[i].channel_id,
                                  weekly_summaries[i].week_start, today)
                = [store |-> Store, val |-> i]

\* a daily and a weekly summary exist whose windows have got a further
\* message since they were created
C7_Witness ==
    /\ \E i \in 1..Len(daily_summaries) :
            daily_summaries[i].message_count
                < Cardinality(SentimentsOfDay(daily_summaries[i].channel_id,
                                              daily_summaries[i].summary_date))
    /\ \E i \in 1..Len(weekly_summaries) :
            weekly_summaries[i].message_count
                < Cardinality(SentimentsOfWeek(weekly_summaries[i].channel_id,
                                               weekly_summaries[i].week_start))

\* C8: summaries are immutable once created: no step changes or removes a
\* stored DailySummary or WeeklySummary.
C8_SummariesImmutable ==
    [][/\ Len(daily_summaries') >= Len(daily_summaries)
       /\ \A i \in 1..Len(daily_summaries) :
              daily_summaries'[i] = daily_summaries[i]
       /\ Len(weekly_summaries') >= Len(weekly_summaries)
       /\ \A i \in 1..Len(weekly_summaries) :
              weekly_summaries'[i] = weekly_summaries[i]]_vars

\* a daily summary whose stored mean is no longer the mean of its day's
\* records (a reaction update or a later message changed them), and a
\* weekly summary whose stored mean is no longer the mean of its week
C8_Witness ==
    /\ \E i \in 1..Len(daily_summaries) :
            daily_summaries[i].avg_sentiment
                # Round3(Mean(ScoresOf(sentiments,
                        SentimentsOfDay(daily_summaries[i].channel_id,
                                        daily_summaries[i].summary_date))))
    /\ \E i \in 1..Len(weekly_summaries) :
            weekly_summaries[i].avg_sentiment
                # Round3(Mean(ScoresOf(sentiments,
                        SentimentsOfWeek(weekly_summaries[i].channel_id,
                                         weekly_summaries[i].week_start))))

\* C9: no summary is created for a window without messages: creation for a
\* (channel, window) without SentimentRecords returns nothing and leaves the
\* store as it is; every stored summary has message_count >= 1 and every
\* WeeklySummary has active_user_count <= message_count.
C9_NoEmptySummaries ==
    /\ \A i \in 1..Len(daily_summaries) :
            daily_summaries[i].message_count >= 1
    /\ \A i \in 1..Len(weekly_summaries) :
            /\ weekly_summaries[i].message_count >= 1
            /\ weekly_summaries[i].active_user_count
                   <= weekly_summaries[i].message_count
    /\ \A channel_id \in Channels, d \in AnyDates :
            SentimentsOfDay(channel_id, d) = {}
            => create_daily_summary(Store, channel_id, d)
                   = [store |-> Store, val |-> NoRow]
    /\ \A channel_id \in Channels, d \in AnyMondays :
            SentimentsOfWeek(channel_id, d) = {}
            => create_weekly_summary(Store, channel_id, d, today)
                   = [store |-> Store, val |-> NoRow]

\* summaries of a two-message week and day exist in one channel while the
\* other channel has a summary too and a week without messages
C9_Witness ==
    /\ \E i \in 1..Len(weekly_summaries) :
            /\ weekly_summaries[i].message_count = 2
            /\ weekly_summaries[i].active_user_count = 2
    /\ \E i \in 1..Len(daily_summaries) :
            daily_summaries[i].message_count = 2
    /\ \E i \in 1..Len(weekly_summaries), d \in AnyMondays :
            /\ weekly_summaries[i].channel_id = "C2"
            /\ SentimentsOfWeek("C2", d) = {}
            /\ SentimentsOfWeek("C1", d) # {}

\* C10 (as claimed): every stored WeeklySummary has burnout_flag =
\* (sentiment_trend <= -0.2 or avg_sentiment <= -0.1) on its own stored,
\* rounded fields.
C10_FlagFromStoredFields ==
    \A i \in 1..Len(weekly_summaries) :
        weekly_summaries[i].burnout_flag
            = (\/ weekly_summaries[i].sentiment_trend <= -2000
               \/ weekly_summaries[i].avg_sentiment <= -1000)

\* C10 (amended): burnout_flag = (trend <= -0.2 or mean <= -0.1) on the
\* trend and mean as computed, before they are rounded to 3 decimals for
\* storage.  On the stored fields: a flagged summary has stored trend <=
\* -0.2 or stored mean <= -0.1, and a summary with stored trend < -0.2 or
\* stored mean < -0.1 is flagged.
C10_FlagFromUnroundedValues ==
    /\ Len(weekly_raw) = Len(weekly_summaries)
    /\ \A i \in 1..Len(weekly_summaries) :
            LET w == weekly_summaries[i]
                raw == weekly_raw[i]
            IN  /\ w.avg_sentiment = Round3(raw.avg_sentiment)
                /\ w.sentiment_trend = Round3(raw.sentiment_trend)
                /\ w.burnout_flag
                       = (\/ RatLe(raw.sentiment_trend, -2000)
                          \/ RatLe(raw.avg_sentiment, -1000))
                /\ w.burnout_flag
                       => (w.sentiment_trend <= -2000
                           \/ w.avg_sentiment <= -1000)
                /\ (w.sentiment_trend < -2000 \/ w.avg_sentiment < -1000)
                       => w.burnout_flag

\* the three rows of the truth table: a week flagged on its mean alone, a
\* week flagged on its trend alone, an unflagged week; and a week stored
\* with mean -0.1 that is not flagged
C10_Witness ==
    /\ \E i \in 1..Len(weekly_summaries) :
            /\ weekly_summaries[i].burnout_flag
            /\ weekly_summaries[i].sentiment_trend = 0
            /\ weekly_summaries[i].avg_sentiment <= -1000
    /\ \E i \in 1..Len(weekly_summaries) :
            /\ weekly_summaries[i].burnout_flag
            /\ weekly_summaries[i].sentiment_trend <= -2000
            /\ weekly_summaries[i].avg_sentiment = 0
    /\ \E i \in 1..Len(weekly_summaries) :
            /\ ~weekly_summaries[i].burnout_flag
            /\ weekly_summaries[i].avg_sentiment = -1000

\* C12 (as claimed): for every WeeklySummary W of a channel, if a
\* WeeklySummary P exists for the immediately preceding week then
\* W.sentiment_trend = W.avg_sentiment - P.avg_sentiment.
C12_TrendFromStoredMeans ==
    \A i, j \in 1..Len(weekly_summaries) :
        (/\ weekly_summaries[j].channel_id = weekly_summaries[i].channel_id
         /\ weekly_summaries[j].week_start
                = weekly_summaries[i].week_start - 7)
        => weekly_summaries[i].sentiment_trend
               = weekly_summaries[i].avg_sentiment
                 - weekly_summaries[j].avg_sentiment

\* C12 (amended): a weekly summary's trend is derived from the records of
\* the two adjacent 7-day windows as they are when the summary is created:
\* every step that creates a WeeklySummary W stores W.sentiment_trend =
\* round(mean of the week's records - mean of the preceding window's
\* records, 3), and 0 if the preceding window has no records; no stored
\* summary of the preceding week is consulted.
C12_TrendFromAdjacentWindows ==
    [][\A i \in (Len(weekly_summaries) + 1)..Len(weekly_summaries') :
          LET w == weekly_summaries'[i]
              cur == SentimentsOfWeek(w.channel_id, w.week_start)
              prev == SentimentsOfWeek(w.channel_id, w.week_start - 7)
          IN  /\ sentiments' = sentiments
              /\ cur # {}
              /\ w.sentiment_trend
                     = (IF prev = {} THEN 0
                        ELSE Round3(RatSub(Mean(ScoresOf(sentiments, cur)),
                                           Mean(ScoresOf(sentiments, prev)))))
      ]_vars

\* a summary W with a stored summary P of the preceding week whose trend is
\* not the difference of the two stored means, and a summary of a week
\* whose preceding window is empty, with trend 0
C12_Witness ==
    /\ \E i, j \in 1..Len(weekly_summaries) :
            /\ weekly_summaries[j].channel_id = weekly_summaries[i].channel_id
            /\ weekly_summaries[j].week_start
                   = weekly_summaries[i].week_start - 7
            /\ weekly_summaries[i].sentiment_trend # 0
            /\ weekly_summaries[i].sentiment_trend
                   # weekly_summaries[i].avg_sentiment
                     - weekly_summaries[j].avg_sentiment
    /\ \E i \in 1..Len(weekly_summaries) :
            /\ weekly_summaries[i].week_start = 7
            /\ weekly_summaries[i].sentiment_trend = 0
            /\ SentimentsOfWeek(weekly_summaries[i].channel_id, 0) = {}

\* the channel's active burnout_alert insights of table ins created on or
\* after day since
ActiveAlerts(ins, channel_id, since) ==
    {k \in 1..Len(ins) :
        /\ ins[k].channel_id = channel_id
        /\ ins[k].insight_type = "burnout_alert"
        /\ ins[k].is_active
        /\ ins[k].created_at >= since}

MostRecentWeekly(channel_id) ==
    CHOOSE i \in 1..Len(weekly_summaries) :
        /\ weekly_summaries[i].channel_id = channel_id
        /\ \A j \in 1..Len(weekly_summaries) :
               weekly_summaries[j].channel_id = channel_id
               => weekly_summaries[j].week_start
                      <= weekly_summaries[i].week_start

\* C18: recommend(channel) returns a priority equal to the maximum severity,
\* under low < medium < high, over the rules that triggered on the most
\* recent weekly summary, and low when none triggered: burnout flag gives
\* high, mean < -0.1 gives medium, active users < 5 gives medium,
\* engagement level High gives low.
C18_PriorityIsMaxSeverity ==
    \A channel_id \in Channels :
        (\E i \in 1..Len(weekly_summaries) :
            weekly_summaries[i].channel_id = channel_id)
        => LET w == weekly_summaries[MostRecentWeekly(channel_id)]
               res == generate_channel_recommendations(Store, channel_id)
           IN  /\ ~res.error
               /\ res.priority_level
                      = (IF w.burnout_flag THEN "high"
                         ELSE IF w.avg_sentiment < -1000
                                 \/ w.active_user_count < 5 THEN "medium"
                         ELSE "low")

(***************************************************************************)
(* Properties of weekly classification (checked under SpecLevels)          *)
(***************************************************************************)
\* the level of a mean given in units of 1/10000
LevelOf(mean) ==
    IF mean >= 3000 THEN "High"
    ELSE IF mean >= 1000 THEN "Medium"
    ELSE IF mean >= -1000 THEN "Low"
    ELSE "Critical"

\* C11 (as claimed): every stored WeeklySummary's engagement_level is the
\* level of its stored avg_sentiment: High if >= 0.3, Medium if >= 0.1, Low
\* if >= -0.1, else Critical.
C11_LevelOfStoredMean ==
    \A i \in 1..Len(weekly_summaries) :
        weekly_summaries[i].engagement_level
            = LevelOf(weekly_summaries[i].avg_sentiment)

\* C11 (amended): engagement_level is the level of the week's mean before it
\* is rounded to 3 decimals for storage (0.3 is High, 0.0999 is Low, -0.1 is
\* Low, -0.1001 is Critical).  On the stored field: the level is that of the
\* stored avg_sentiment unless the stored value is exactly 0.3, 0.1 or -0.1,
\* where the level may be the one of the band just below.
C11_LevelOfUnroundedMean ==
    /\ Len(weekly_raw) = Len(weekly_summaries)
    /\ \A i \in 1..Len(weekly_summaries) :
            LET w == weekly_summaries[i]
                mean == weekly_raw[i].avg_sentiment
            IN  /\ w.avg_sentiment = Round3(mean)
                /\ w.engagement_level
                       = (IF mean[1] >= 3000 * mean[2] THEN "High"
                          ELSE IF mean[1] >= 1000 * mean[2] THEN "Medium"
                          ELSE IF mean[1] >= -1000 * mean[2] THEN "Low"
                          ELSE "Critical")
                /\ w.avg_sentiment \notin {3000, 1000, -1000}
                       => w.engagement_level = LevelOf(w.avg_sentiment)
                /\ w.avg_sentiment \in {3000, 1000, -1000}
                       => w.engagement_level
                              \in {LevelOf(w.avg_sentiment),
                                   LevelOf(w.avg_sentiment - 10)}

\* the boundary weeks: mean 0.3 stored as High, mean 0.0999 stored with
\* avg_sentiment 0.1 as Low, mean -0.1 stored as Low, mean -0.1001 stored
\* with avg_sentiment -0.1 as Critical
C11_Witness ==
    /\ \E i \in 1..Len(weekly_summaries) :
            /\ weekly_raw[i].avg_sentiment = <<3000, 1>>
            /\ weekly_summaries[i].engagement_level = "High"
    /\ \E i \in 1..Len(weekly_summaries) :
            /\ weekly_raw[i].avg_sentiment = <<999, 1>>
            /\ weekly_summaries[i].avg_sentiment = 1000
            /\ weekly_summaries[i].engagement_level = "Low"
    /\ \E i \in 1..Len(weekly_summaries) :
            /\ weekly_raw[i].avg_sentiment \in {<<-1000, 1>>, <<-1001, 1>>}
            /\ weekly_summaries[i].avg_sentiment = -1000
            /\ weekly_summaries[i].engagement_level \in {"Low", "Critical"}

(***************************************************************************)
(* Properties of the insight engine (checked under SpecInsights)           *)
(***************************************************************************)
BatteryKinds ==
    {"burnout_pattern", "participation_decline", "engagement_spike",
     "high_participation", "participation_trend", "participation_growth",
     "sentiment_volatility"}

\* C15: the periodic battery deduplicates against recently-active insights
\* of the same kind: running it twice within 7 days over unchanged weekly
\* summaries does not leave two active insights of the same kind for the
\* same channel.
C15_BatteryDedup ==
    \A later \in 0..7 :
        LET first == run_insight_generation_job(Store, active_channels, today,
                                                {}, {})
            second == run_insight_generation_job(first, active_channels,
                                                 today + later, {}, {})
            ins == second.insights
        IN  \A a, b \in (Len(insights) + 1)..Len(ins) :
                (/\ a # b
                 /\ ins[a].is_active
                 /\ ins[b].is_active
                 /\ ins[a].channel_id = ins[b].channel_id
                 /\ ins[a].insight_type \in BatteryKinds)
                => ins[a].insight_type # ins[b].insight_type

\* C16: the insight lifecycle is one-way and driven only by
\* acknowledgement: every insight is created active with no acknowledger;
\* in every reachable state an insight is inactive if and only if its
\* acknowledger and acknowledgement timestamp are set; once an insight is
\* inactive no step makes it active again.
C16_InsightLifecycle ==
    /\ [](\A i \in 1..Len(insights) :
            /\ ~insights[i].is_active
                   <=> (/\ insights[i].acknowledged_by # None
                        /\ insights[i].acknowledged_at # NoTime)
            /\ insights[i].is_active
                   => (/\ insights[i].acknowledged_by = None
                       /\ insights[i].acknowledged_at = NoTime))
    /\ [][/\ Len(insights') >= Len(insights)
          /\ \A i \in 1..Len(insights) :
                 ~insights[i].is_active => ~insights'[i].is_active
          /\ \A i \in (Len(insights) + 1)..Len(insights') :
                 /\ insights'[i].is_active
                 /\ insights'[i].acknowledged_by = None
                 /\ insights'[i].acknowledged_at = NoTime]_vars

\* an acknowledged battery insight, followed by an insight of the same
\* kind and channel created after it and still active, and a burnout alert
C16_Witness ==
    /\ \E a, b \in 1..Len(insights) :
            /\ a < b
            /\ insights[a].insight_type = "engagement_spike"
            /\ insights[b].insight_type = "engagement_spike"
            /\ insights[a].channel_id = insights[b].channel_id
            /\ ~insights[a].is_active
            /\ insights[a].acknowledged_by \in Actors
            /\ insights[b].is_active
    /\ \E c \in 1..Len(insights) : insights[c].insight_type = "burnout_alert"

\* C17: acknowledge is idempotent in effect: acknowledging an existing
\* insight a second time reports success and the insight remains inactive
\* with an acknowledger set, as after the first acknowledgement; nothing
\* else in the store changes (the acknowledger and timestamp are those of
\* the latest call, so the same acknowledger at the same time leaves the
\* store as it was).
C17_AcknowledgeIdempotent ==
    \A insight_id \in 1..Len(insights), by1 \in Actors, by2 \in Actors,
       later \in {0, 1} :
        LET first == acknowledge_insight(Store, insight_id, by1, today)
            second == acknowledge_insight(first.store, insight_id, by2,
                                          today + later)
            row1 == first.store.insights[insight_id]
            row2 == second.store.insights[insight_id]
        IN  /\ first.val
            /\ second.val
            /\ ~row1.is_active /\ row1.acknowledged_by # None
            /\ ~row2.is_active /\ row2.acknowledged_by # None
            /\ second.store
                   = [first.store EXCEPT
                        !.insights[insight_id].acknowledged_by = by2,
                        !.insights[insight_id].acknowledged_at = today + later]
            /\ (by1 = by2 /\ later = 0) => second.store = first.store

\* an insight created on day 0 that was acknowledged on day 7, next to an
\* insight that is still active
C17_Witness ==
    /\ \E i \in 1..Len(insights) :
            /\ insights[i].created_at = 0
            /\ ~insights[i].is_active
            /\ insights[i].acknowledged_at = 7
    /\ \E j \in 1..Len(insights) : insights[j].is_active

(***************************************************************************)
(* Acknowledgement record (checked under SpecInsights)                     *)
(***************************************************************************)
\* C29: the acknowledgement record is write-once: once an insight has been
\* acknowledged, its acknowledger identity and acknowledgement timestamp
\* never change in any later state, including when acknowledge is called
\* again on the same insight by a different actor.
C29_AcknowledgementWriteOnce ==
    [][\A i \in 1..Len(insights) :
            insights[i].acknowledged_by # None
            => /\ i <= Len(insights')
               /\ insights'[i].acknowledged_by = insights[i].acknowledged_by
               /\ insights'[i].acknowledged_at = insights[i].acknowledged_at]_vars

(***************************************************************************)
(* Properties of batch aggregation under store failures (SpecFailures)     *)
(***************************************************************************)
\* the rows of a table that belong to one channel, in id order
OfChannel(tbl, channel_id) ==
    LET Mine(r) == r.channel_id = channel_id
    IN  SelectSeq(tbl, Mine)

\* what one channel sees of a store: its summaries and insights
ChannelView(st, channel_id) ==
    [daily |-> OfChannel(st.daily, channel_id),
     weekly |-> OfChannel(st.weekly, channel_id),
     insights |-> OfChannel(st.insights, channel_id)]

\* C19: batch aggregation isolates failures per channel: in the daily job,
\* the weekly job and backfill, if creating the summary of one channel
\* fails, the summaries committed before remain, nothing is stored for the
\* failing channel, and every other channel ends with exactly the summaries
\* (and alerts) it gets in a run without failures.
C19_BatchFailureIsolation ==
    /\ \A fails \in SUBSET Channels, channel_id \in Channels :
            LET after == DailyLoopWithFailures(Store, active_channels,
                                               today - 1, fails)
                clean == DailyLoop(Store, active_channels, today - 1)
            IN  /\ SubSeq(after.daily, 1, Len(daily_summaries))
                       = daily_summaries
                /\ ChannelView(after, channel_id)
                       = ChannelView(IF channel_id \in fails THEN Store
                                     ELSE clean, channel_id)
    /\ \A fails \in SUBSET Channels, channel_id \in Channels :
            LET monday == get_monday_of_week(today) - 7
                after == WeeklyLoopWithFailures(Store, active_channels, monday,
                                                today, fails)
                clean == WeeklyLoop(Store, active_channels, monday, today)
            IN  /\ SubSeq(after.weekly, 1, Len(weekly_summaries))
                       = weekly_summaries
                /\ ChannelView(after, channel_id)
                       = ChannelView(IF channel_id \in fails THEN Store
                                     ELSE clean, channel_id)
    /\ \A fails \in SUBSET Channels, channel_id \in Channels,
          start_date \in ClockDays, end_date \in ClockDays :
            LET after == BackfillLoopWithFailures(Store, active_channels,
                             start_date, end_date, today, fails, fails)
                clean == BackfillLoop(Store, active_channels, start_date,
                                      end_date, today)
            IN  /\ SubSeq(after.daily, 1, Len(daily_summaries))
                       = daily_summaries
                /\ SubSeq(after.weekly, 1, Len(weekly_summaries))
                       = weekly_summaries
                /\ ChannelView(after, channel_id)
                       = ChannelView(IF channel_id \in fails THEN Store
                                     ELSE clean, channel_id)

\* the first channel's record was stored before the second channel's, the
\* second channel's day and week are summarised and the first channel's are
\* not: its creation failed in the runs that summarised the second channel
C19_Witness ==
    \E i, j \in 1..Len(sentiments) :
        /\ i < j
        /\ sentiments[i].channel_id = "C1"
        /\ sentiments[j].channel_id = "C2"
        /\ sentiments[i].analysis_date = sentiments[j].analysis_date
        /\ OfChannel(daily_summaries, "C1") = <<>>
        /\ OfChannel(weekly_summaries, "C1") = <<>>
        /\ OfChannel(daily_summaries, "C2") # <<>>
        /\ OfChannel(weekly_summaries, "C2") # <<>>

(***************************************************************************)
(* Failure scope of the insight job (checked under SpecInsights)           *)
(***************************************************************************)
\* C20: every failure in the periodic insight-generation job is scoped to
\* the channel being processed: if generating or persisting the insights
\* of some channels fails, the insights produced in the same run for the
\* other active channels are still persisted.
C20_InsightJobFailureScope ==
    \A gen_fail \in SUBSET Channels, write_fail \in SUBSET Channels,
       channel_id \in Channels :
        LET after == run_insight_generation_job(Store, active_channels, today,
                                                gen_fail, write_fail)
            clean == run_insight_generation_job(Store, active_channels, today,
                                                {}, {})
        IN  channel_id \notin (gen_fail \cup write_fail)
            => OfChannel(after.insights, channel_id)
                   = OfChannel(clean.insights, channel_id)

C22_ConcurrentIngestionUnique ==
    \A i \in 1..Len(sentiments), j \in 1..Len(sentiments) :
        (/\ sentiments[i].channel_id = sentiments[j].channel_id
         /\ sentiments[i].message_ts = sentiments[j].message_ts)
        => i = j

(***************************************************************************)
(* Properties of the rule battery (checked under SpecBattery)              *)
(***************************************************************************)
\* the weekly summaries generate_engagement_insights passes to the checks
\* for channel C1: those of the past 30 days, newest first
RecentWeeks ==
    OrderByWeekStartDesc(weekly_summaries,
        {i \in 1..Len(weekly_summaries) :
            /\ weekly_summaries[i].channel_id = "C1"
            /\ weekly_summaries[i].week_start >= today - 30})

\* some insight of the list has the given type and severity
Emits(list, insight_type, severity) ==
    \E k \in 1..Len(list) : /\ list[k].insight_type = insight_type
                            /\ list[k].severity = severity

\* some insight of the list has the given type
EmitsType(list, insight_type) ==
    \E k \in 1..Len(list) : list[k].insight_type = insight_type

\* C23: participation-decline rule of the burnout-pattern check: with at
\* least 2 weekly summaries (newest first), a medium-severity
\* participation_decline insight is emitted if and only if the most recent
\* week's active-user count is more than 2 below that of the second newest
\* summary, however many summaries exist and whether or not burnout_pattern
\* is emitted.
C23_ParticipationDecline ==
    LET w == RecentWeeks
        out == _check_burnout_patterns("C1", w)
    IN  Len(w) >= 2
        => /\ Emits(out, "participation_decline", "medium")
                <=> w[1].active_user_count < w[2].active_user_count - 2
           /\ EmitsType(out, "participation_decline")
                => Emits(out, "participation_decline", "medium")

\* C24: engagement-spike rule: with at least 2 weekly summaries, a
\* low-severity engagement_spike insight is emitted if and only if the most
\* recent week's mean is >= 0.3 (0.3 itself included) and exceeds the prior
\* week's mean by more than 0.2.
C24_EngagementSpike ==
    LET w == RecentWeeks
        out == _check_engagement_spikes("C1", w)
    IN  Len(w) >= 2
        => /\ Emits(out, "engagement_spike", "low")
                <=> /\ w[1].avg_sentiment >= 3000
                    /\ w[1].avg_sentiment - w[2].avg_sentiment > 2000
           /\ EmitsType(out, "engagement_spike")
                => Emits(out, "engagement_spike", "low")

\* sum over the list of (n * s - total)^2, s the weekly mean: n^2 times the
\* sum of the squared deviations from the mean of the list
RECURSIVE SumSquaredDeviations(_, _, _)
SumSquaredDeviations(ws, n, total) ==
    IF ws = <<>> THEN 0
    ELSE (n * Head(ws).avg_sentiment - total)
             * (n * Head(ws).avg_sentiment - total)
         + SumSquaredDeviations(Tail(ws), n, total)

\* the population variance of the weekly means of the list is > 0.09
\* (sum of squared deviations / n > 0.09, in squared units of 1/10000)
PopulationStdDevAbove03(ws) ==
    LET n == Len(ws)
    IN  SumSquaredDeviations(ws, n, SumAvg(ws)) > 9000000 * n * n * n

\* the weekly means of the list
MeansOf(ws) == [k \in 1..Len(ws) |-> ws[k].avg_sentiment]

CalendarDecreasing(ws) ==
    \A k \in 1..(Len(ws) - 1) :
        ws[k].active_user_count < ws[k + 1].active_user_count

\* the active-user counts of the list strictly increase with calendar time
CalendarIncreasing(ws) ==
    \A k \in 1..(Len(ws) - 1) :
        ws[k].active_user_count > ws[k + 1].active_user_count

\* C27: the participation-trend check reports the direction of
\* participation in calendar time: with at least 3 weekly summaries whose
\* active-user counts strictly decrease from each week to the next later
\* week, it emits the medium-severity participation_trend insight and not
\* participation_growth; a calendar-increasing sequence yields
\* participation_growth and never participation_trend.
C27_ParticipationTrendDirection ==
    LET w == RecentWeeks
        out == _check_participation_trends("C1", w)
    IN  Len(w) >= 3
        => /\ CalendarDecreasing(w)
                => /\ Emits(out, "participation_trend", "medium")
                   /\ ~EmitsType(out, "participation_growth")
           /\ CalendarIncreasing(w)
                => /\ EmitsType(out, "participation_growth")
                   /\ ~EmitsType(out, "participation_trend")

(***************************************************************************)
(* Alerts of flagged weeks (checked under SpecAlertFailures)               *)
(***************************************************************************)
\* C30: no burnout-flagged week is left without an alert: in every reachable
\* state, including those reached after the store write of the insight
\* failed and create_weekly_summary was invoked again for the same week,
\* every channel with a stored WeeklySummary whose burnout_flag is true has
\* at least one burnout_alert insight, active or acknowledged.
C30_FlaggedWeekHasAlert ==
    \A i \in 1..Len(weekly_summaries) :
        weekly_summaries[i].burnout_flag
        => \E j \in 1..Len(insights) :
               /\ insights[j].channel_id = weekly_summaries[i].channel_id
               /\ insights[j].insight_type = "burnout_alert"

(***************************************************************************)
(* Concurrent reaction updates (checked under SpecConcurrentIngest)        *)
(***************************************************************************)
\* C28: no reaction update is lost under concurrency: when reaction updates
\* on the same SentimentRecord run in separate sessions (each reads the
\* record, adds its weight, writes back), every commit leaves reaction_boost
\* at the stored value plus the signed weight of that update, so that after
\* both have committed it is the prior value plus both weights, and
\* final_score is the clamp of the component sum with that reaction_boost.
C28_NoLostReactionUpdate ==
    [][\A s \in Sessions :
          (session[s].pc = "update_sentiment_with_reaction"
           /\ session'[s].pc = "idle")
          => LET p == session[s].pending[1]
                 weight == p.changed.reaction_boost - p.loaded.reaction_boost
                 before == sentiments[p.id]
                 after == sentiments'[p.id]
             IN  /\ after.reaction_boost = before.reaction_boost + weight
                 /\ after.final_score
                        = Clamp(after.sentiment_score + after.emoji_boost
                                + calculate_keyword_sentiment(
                                      after.text_content)
                                + after.reaction_boost, -One, One)]_vars

(***************************************************************************)
(* Properties of concurrent summary creation (SpecConcurrentSummaries)     *)
(***************************************************************************)
\* the number of rows of a summary table with the given channel and date
\* (summary_date of a daily, week_start of a weekly summary)
DailyRows(tbl, channel_id, d) ==
    Cardinality({i \in 1..Len(tbl) : /\ tbl[i].channel_id = channel_id
                                     /\ tbl[i].summary_date = d})

WeeklyRows(tbl, channel_id, d) ==
    Cardinality({i \in 1..Len(tbl) : /\ tbl[i].channel_id = channel_id
                                     /\ tbl[i].week_start = d})

====
